---- MODULE Spec2Model ----
(***************************************************************************)
(* Fund accounting engine of the MAEK protocol (programs/maek-protocol):   *)
(* share minting and burning, NAV updates, and the consistency check.      *)
(*                                                                         *)
(* The program computes on u64 and u128 values far beyond the range of     *)
(* TLC's integers, so every amount is an exact natural number written as   *)
(* a sequence of base-1000 limbs, most significant first and without       *)
(* leading zero limbs: 100_000_000 in the source is <<100, 000, 000>>      *)
(* here, and zero is <<0>>.  Timestamps and counters stay plain integers.  *)
(***************************************************************************)
EXTENDS Integers, Sequences, FiniteSets, TLC

(***************************************************************************)
(* Exact arithmetic on limb sequences.                                     *)
(***************************************************************************)
RECURSIVE Norm(_)
Norm(s) ==
    IF Len(s) = 0 THEN <<0>>
    ELSE IF Len(s) > 1 /\ Head(s) = 0 THEN Norm(Tail(s))
    ELSE s

\* limb i of a, counted from the least significant one (i = 0)
Limb(a, i) == IF i < Len(a) THEN a[Len(a) - i] ELSE 0

MaxOf(x, y) == IF x >= y THEN x ELSE y

RECURSIVE CmpFrom(_, _, _)
CmpFrom(a, b, i) ==
    IF i > Len(a) THEN 0
    ELSE IF a[i] < b[i] THEN -1
    ELSE IF a[i] > b[i] THEN 1
    ELSE CmpFrom(a, b, i + 1)

\* -1, 0, 1 as a < b, a = b, a > b (a and b normalised)
Cmp(a, b) ==
    IF Len(a) < Len(b) THEN -1
    ELSE IF Len(a) > Len(b) THEN 1
    ELSE CmpFrom(a, b, 1)

Lt(a, b) == Cmp(a, b) < 0
Le(a, b) == Cmp(a, b) <= 0
Gt(a, b) == Cmp(a, b) > 0
Ge(a, b) == Cmp(a, b) >= 0
IsZero(a) == a = <<0>>

RECURSIVE AddFrom(_, _, _, _, _)
AddFrom(a, b, i, carry, acc) ==
    IF i >= MaxOf(Len(a), Len(b)) /\ carry = 0 THEN acc
    ELSE LET t == Limb(a, i) + Limb(b, i) + carry
         IN AddFrom(a, b, i + 1, t \div 1000, <<t % 1000>> \o acc)

Add(a, b) == Norm(AddFrom(a, b, 0, 0, <<>>))

RECURSIVE SubFrom(_, _, _, _, _)
SubFrom(a, b, i, borrow, acc) ==
    IF i >= Len(a) THEN acc
    ELSE LET t == Limb(a, i) - Limb(b, i) - borrow
         IN IF t < 0 THEN SubFrom(a, b, i + 1, 1, <<t + 1000>> \o acc)
            ELSE SubFrom(a, b, i + 1, 0, <<t>> \o acc)

\* a - b for a >= b
Sub(a, b) == Norm(SubFrom(a, b, 0, 0, <<>>))

RECURSIVE MulSmallFrom(_, _, _, _, _)
MulSmallFrom(a, k, i, carry, acc) ==
    IF i >= Len(a) /\ carry = 0 THEN acc
    ELSE LET t == Limb(a, i) * k + carry
         IN MulSmallFrom(a, k, i + 1, t \div 1000, <<t % 1000>> \o acc)

\* a * k for one limb k in 0..999
MulSmall(a, k) == Norm(MulSmallFrom(a, k, 0, 0, <<>>))

RECURSIVE MulFrom(_, _, _, _)
MulFrom(a, b, j, acc) ==
    IF j > Len(b) THEN acc
    ELSE MulFrom(a, b, j + 1, Add(Norm(acc \o <<0>>), MulSmall(a, b[j])))

Mul(a, b) ==
    IF Len(b) = 1 THEN MulSmall(a, b[1])
    ELSE IF Len(a) = 1 THEN MulSmall(b, a[1])
    ELSE MulFrom(a, b, 1, <<0>>)

\* the value of a sequence of at most three limbs
Small(s) ==
    IF Len(s) = 1 THEN s[1]
    ELSE IF Len(s) = 2 THEN s[1] * 1000 + s[2]
    ELSE s[1] * 1000000 + s[2] * 1000 + s[3]

MinOf(x, y) == IF x <= y THEN x ELSE y

\* the largest q in lo..hi with b * q <= r (b * lo <= r is given)
RECURSIVE QuotLimb(_, _, _, _)
QuotLimb(r, b, lo, hi) ==
    IF lo >= hi THEN lo
    ELSE LET mid == (lo + hi + 1) \div 2
         IN IF Le(MulSmall(b, mid), r) THEN QuotLimb(r, b, mid, hi)
            ELSE QuotLimb(r, b, lo, mid - 1)

\* floor(r / b) for 0 <= r < 1000 * b: exact on machine integers when b has at
\* most two limbs, otherwise bracketed by the leading limbs of r and b
QuotOf(r, b) ==
    IF Lt(r, b) THEN 0
    ELSE IF Len(b) <= 2 THEN Small(r) \div Small(b)
    ELSE LET cut == Len(b) - 2
             bt == Small(SubSeq(b, 1, 2))
             rt == Small(SubSeq(r, 1, Len(r) - cut))
         IN QuotLimb(r, b, rt \div (bt + 1), MinOf(999, rt \div bt))

RECURSIVE DivFrom(_, _, _, _, _)
DivFrom(a, b, j, r, q) ==
    IF j > Len(a) THEN [quot |-> Norm(q), rem |-> r]
    ELSE LET r1 == Norm(r \o <<a[j]>>)
             d  == QuotOf(r1, b)
         IN DivFrom(a, b, j + 1, IF d = 0 THEN r1 ELSE Sub(r1, MulSmall(b, d)),
                    q \o <<d>>)

\* floor(a / d) for a machine integer 0 < d < 10^6, limb by limb
RECURSIVE DivSmallFrom(_, _, _, _, _)
DivSmallFrom(a, d, j, r, q) ==
    IF j > Len(a) THEN Norm(q)
    ELSE LET t == r * 1000 + a[j]
         IN DivSmallFrom(a, d, j + 1, t % d, q \o <<t \div d>>)

\* floor(a / b) and a mod b for b > 0; trailing zero limbs of b are divided
\* out first (floor(floor(a / 1000) / c) = floor(a / (1000 * c)))
RECURSIVE Div(_, _)
Div(a, b) ==
    IF Len(b) > 1 /\ b[Len(b)] = 0
    THEN IF Len(a) = 1 THEN <<0>>
         ELSE Div(SubSeq(a, 1, Len(a) - 1), SubSeq(b, 1, Len(b) - 1))
    ELSE IF Len(b) <= 2 THEN DivSmallFrom(a, Small(b), 1, 0, <<>>)
    ELSE DivFrom(a, b, 1, <<0>>, <<>>).quot

Mod(a, b) == DivFrom(a, b, 1, <<0>>, <<>>).rem

AbsDiff(a, b) == IF Gt(a, b) THEN Sub(a, b) ELSE Sub(b, a)

(***************************************************************************)
(* Program constants.                                                      *)
(***************************************************************************)
U64_MAX == <<18, 446, 744, 073, 709, 551, 615>>
TWO_64 == <<18, 446, 744, 073, 709, 551, 616>>
TWO_63 == <<9, 223, 372, 036, 854, 775, 808>>
NAV_SCALE == <<100, 000, 000>>
MIN_NAV == <<95, 000, 000>>
MAX_NAV == <<105, 000, 000>>
INITIAL_NAV == <<100, 000, 000>>
MIN_DEPOSIT == <<1, 000, 000>>
\* faulty variant: no upper bound on a deposit
MAX_DEPOSIT_unbounded == U64_MAX

MAX_DEPOSIT == <<1, 000, 000, 000, 000>>
NAV_UPDATE_INTERVAL == 82800

(***************************************************************************)
(* Result<u64>: err is "Ok" or the name of the ErrorCode; "Panic" is an    *)
(* arithmetic-overflow abort of the instruction.                           *)
(***************************************************************************)
Ok(v) == [err |-> "Ok", val |-> v, out |-> v]
Err(e) == [err |-> e, val |-> <<0>>, out |-> <<0>>]

\* require!(x <= u64::MAX, MathOverflow) / ok_or(MathOverflow) on a checked
\* operation: the exact result when it fits in 64 bits
to_u64(x) == IF Gt(x, U64_MAX) THEN Err("MathOverflow") ELSE Ok(x)

\* the ? operator: an Err result leaves the function at once, an Ok value
\* goes on into the rest of the function
Try(r, rest(_)) == IF r.err # "Ok" THEN Err(r.err) ELSE rest(r.val)

checked_add(a, b) == to_u64(Add(a, b))

checked_sub(a, b) ==
    IF Lt(a, b) THEN Err("MathOverflow") ELSE Ok(Sub(a, b))

checked_mul(a, b) == to_u64(Mul(a, b))

checked_div(a, b) ==
    IF IsZero(b) THEN Err("MathOverflow") ELSE Ok(Div(a, b))

\* a u64 product p computed without a check: the exact product when it fits;
\* otherwise the build decides, a panic (overflow checks on) or p mod 2^64
unchecked(p, overflow_checks) ==
    IF Le(p, U64_MAX) THEN Ok(p)
    ELSE IF overflow_checks THEN Err("Panic")
    ELSE Ok(Mod(p, TWO_64))

\* faulty variant: the factor is dropped (no conversion from 6 to 8 decimals)
unchecked_mul_unscaled(a, b, overflow_checks) == unchecked(a, overflow_checks)

unchecked_mul(a, b, overflow_checks) == unchecked(Mul(a, b), overflow_checks)

(***************************************************************************)
(* utils/calculations.rs                                                   *)
(***************************************************************************)
\* faulty variant: 10^12 share units per unit of NAV instead of 100
calculate_fund_tokens_overminted(deposit_amount, nav_per_share) ==
    IF IsZero(nav_per_share) THEN Err("InvalidNAV")
    ELSE IF IsZero(deposit_amount) THEN Err("InvalidAmount")
    ELSE to_u64(Div(Mul(deposit_amount, <<1, 000, 000, 000, 000>>), nav_per_share))

calculate_fund_tokens(deposit_amount, nav_per_share) ==
    IF IsZero(nav_per_share) THEN Err("InvalidNAV")
    ELSE IF IsZero(deposit_amount) THEN Err("InvalidAmount")
    ELSE to_u64(Div(Mul(deposit_amount, <<100>>), nav_per_share))

\* faulty variant: the conversion from 8 to 6 decimals is left out
calculate_withdrawal_amount_no_rescale(fund_tokens, nav_per_share) ==
    IF IsZero(fund_tokens) THEN Err("InvalidAmount")
    ELSE IF IsZero(nav_per_share) THEN Err("InvalidNAV")
    ELSE to_u64(Div(Mul(fund_tokens, nav_per_share), NAV_SCALE))

\* faulty variant: the product of shares and NAV is paid out as it is
calculate_withdrawal_amount_unscaled(fund_tokens, nav_per_share) ==
    IF IsZero(fund_tokens) THEN Err("InvalidAmount")
    ELSE IF IsZero(nav_per_share) THEN Err("InvalidNAV")
    ELSE to_u64(Mul(fund_tokens, nav_per_share))

calculate_withdrawal_amount(fund_tokens, nav_per_share) ==
    IF IsZero(fund_tokens) THEN Err("InvalidAmount")
    ELSE IF IsZero(nav_per_share) THEN Err("InvalidNAV")
    ELSE to_u64(Div(Div(Mul(fund_tokens, nav_per_share), NAV_SCALE), <<100>>))

\* the deposit bounds of the calculations module: $10 to $1,000,000
validate_deposit_amount(amount_usdc) ==
    IF Lt(amount_usdc, <<10, 000, 000>>) THEN Err("DepositTooSmall")
    ELSE IF Gt(amount_usdc, <<1, 000, 000, 000, 000>>) THEN Err("DepositTooLarge")
    ELSE Ok(<<0>>)

validate_withdrawal_amount(fund_tokens, user_balance) ==
    IF ~Gt(fund_tokens, <<0>>) THEN Err("WithdrawAmountZero")
    ELSE IF ~Le(fund_tokens, user_balance) THEN Err("InsufficientFundTokens")
    ELSE Ok(<<0>>)

(***************************************************************************)
(* State.  fund_state is the FundState account, user_accounts the          *)
(* UserFundAccount of every user (all-zero until the first deposit         *)
(* creates it), tokens the token program's side (the USDC held by the      *)
(* vault and the supply of the fund token mint), now the cluster clock.    *)
(* last records the most recent step: the instruction's name, caller,      *)
(* arguments, error code and output.  ops and ticks count committed        *)
(* instructions and clock advances.  calc holds the arguments and result   *)
(* of a function applied on its own (SpecCalc, SpecTotals, SpecFee,        *)
(* SpecInvest, SpecAsset).                                                 *)
(***************************************************************************)
VARIABLES fund_state, user_accounts, tokens, now, last, ops, ticks, calc

vars == <<fund_state, user_accounts, tokens, now, last, ops, ticks, calc>>

Users == {"alice", "bob"}

\* a signed 64-bit P&L: sign and magnitude
Pnl(negative, magnitude) == [neg |-> negative, mag |-> magnitude]

\* Instructions fail as a whole: the runtime discards the writes of a failed
\* instruction.  The body of a handler yields Err(e) or Ok(Written(..)), the
\* accounts as the handler leaves them and the value it logs; Outcome keeps
\* the new accounts of an Ok result and the old ones otherwise.
Written(fs, ua, out) == [fund_state |-> fs, user_account |-> ua, out |-> out]
Done(fs, ua, out) == [err |-> "Ok", fund_state |-> fs, user_account |-> ua, out |-> out]
Fail(e, fs, ua) == [err |-> e, fund_state |-> fs, user_account |-> ua, out |-> <<0>>]
Outcome(r, fs, ua) ==
    IF r.err = "Ok" THEN Done(r.val.fund_state, r.val.user_account, r.val.out)
    ELSE Fail(r.err, fs, ua)

\* The calls into the token program are part of the instruction's
\* transaction: what they did stays only if the instruction returns Ok.
\* faulty variant: the transfers made before a later arithmetic failure stay
settle_keeps_cpi(r, before, after) ==
    IF r.err \in {"Ok", "MathOverflow", "Panic"} THEN after ELSE before

settle(r, before, after) == IF r.err = "Ok" THEN after ELSE before

NoTokens == [usdc_vault |-> <<0>>, fund_token_supply |-> <<0>>]

(***************************************************************************)
(* instructions/deposit.rs                                                 *)
(***************************************************************************)
\* faulty variant: the pause flag is not looked at
is_paused_ignored(fs) == FALSE

\* require!(!fund_state.is_paused, FundPaused) fails when this is TRUE
is_paused(fs) == fs.is_paused

\* token::transfer of the amount into the vault, token::mint_to of the shares
deposit_cpi(tk, amount, fund_tokens) ==
    [tk EXCEPT !.usdc_vault = Add(@, amount),
               !.fund_token_supply = Add(@, fund_tokens)]

\* faulty variant: the fund total is credited with one share unit too many
deposit_total_shares_off_by_one(total_shares, fund_tokens) ==
    checked_add(total_shares, Add(fund_tokens, <<1>>))

deposit_total_shares(total_shares, fund_tokens) == checked_add(total_shares, fund_tokens)

\* faulty variant: the plain mean of the old basis and the NAV, not weighted
\* by the share counts
deposit_avg_cost_basis_mean(avg_cost_basis, new_fund_tokens, fund_tokens, nav_per_share) ==
    Try(checked_add(avg_cost_basis, nav_per_share), LAMBDA total_cost :
        checked_div(total_cost, <<2>>))

deposit_avg_cost_basis(avg_cost_basis, new_fund_tokens, fund_tokens, nav_per_share) ==
    Try(checked_sub(new_fund_tokens, fund_tokens), LAMBDA prior :
    Try(checked_mul(avg_cost_basis, prior), LAMBDA old_cost :
    Try(checked_mul(nav_per_share, fund_tokens), LAMBDA new_cost :
    Try(checked_add(old_cost, new_cost), LAMBDA total_cost :
        checked_div(total_cost, new_fund_tokens)))))

\* faulty variant: the reserves are credited with the 8-decimal equivalent
deposit_cash_reserves_8dec(cash_reserves, amount) ==
    checked_add(cash_reserves, Mul(amount, <<100>>))

deposit_cash_reserves(cash_reserves, amount) == checked_add(cash_reserves, amount)

deposit_body(fs, ua, amount, cpi_ok, overflow_checks) ==
    IF is_paused(fs) THEN Err("FundPaused")
    ELSE IF Lt(amount, MIN_DEPOSIT) THEN Err("DepositTooSmall")
    ELSE IF Gt(amount, MAX_DEPOSIT) THEN Err("DepositTooLarge")
    ELSE
    Try(calculate_fund_tokens(amount, fs.nav_per_share), LAMBDA fund_tokens :
    IF ~cpi_ok THEN Err("TransferFailed")
    ELSE
    Try(unchecked_mul(amount, <<100>>, overflow_checks), LAMBDA amount_8 :
    Try(checked_add(fs.total_assets, amount_8), LAMBDA total_assets :
    Try(deposit_total_shares(fs.total_shares, fund_tokens), LAMBDA total_shares :
    Try(deposit_cash_reserves(fs.cash_reserves, amount), LAMBDA cash_reserves :
    Try(checked_add(ua.fund_tokens, fund_tokens), LAMBDA user_tokens :
    Try(checked_add(ua.total_deposited, amount_8), LAMBDA total_deposited :
    Try(deposit_avg_cost_basis(ua.avg_cost_basis, user_tokens, fund_tokens,
                               fs.nav_per_share), LAMBDA avg :
        Ok(Written([fs EXCEPT !.total_assets = total_assets,
                              !.total_shares = total_shares,
                              !.cash_reserves = cash_reserves,
                              !.total_depositors = IF ua.initialized THEN @ ELSE @ + 1],
                   [ua EXCEPT !.initialized = TRUE,
                              !.fund_tokens = user_tokens,
                              !.total_deposited = total_deposited,
                              !.last_deposit_nav = fs.nav_per_share,
                              !.deposit_count = @ + 1,
                              !.avg_cost_basis = avg],
                   fund_tokens))))))))))

deposit(fs, ua, amount, cpi_ok, overflow_checks) ==
    Outcome(deposit_body(fs, ua, amount, cpi_ok, overflow_checks), fs, ua)

(***************************************************************************)
(* instructions/withdraw.rs                                                *)
(***************************************************************************)
\* token::burn of the shares, token::transfer of the amount out of the vault
withdraw_cpi(tk, fund_tokens, usdc_amount) ==
    [tk EXCEPT !.fund_token_supply = Sub(@, fund_tokens),
               !.usdc_vault = Sub(@, usdc_amount)]

\* faulty variant: the cash reserves are compared at 8 decimals, the amount at 6
withdraw_liquidity_ok_wrong_scale(cash_reserves, usdc_amount) ==
    Ge(Mul(cash_reserves, <<100>>), usdc_amount)

withdraw_liquidity_ok(cash_reserves, usdc_amount) == Ge(cash_reserves, usdc_amount)

\* faulty variant: the 8-decimal equivalent is taken off the 6-decimal reserves
withdraw_cash_reserves_8dec(cash_reserves, usdc_amount) ==
    checked_sub(cash_reserves, Mul(usdc_amount, <<100>>))

withdraw_cash_reserves(cash_reserves, usdc_amount) ==
    checked_sub(cash_reserves, usdc_amount)

\* faulty variant: the caller's balance is not compared with the request
withdraw_has_tokens_unchecked(user_tokens, fund_tokens) == TRUE

withdraw_has_tokens(user_tokens, fund_tokens) == Ge(user_tokens, fund_tokens)

withdraw_body(fs, ua, fund_tokens, cpi_ok, overflow_checks) ==
    IF is_paused(fs) THEN Err("FundPaused")
    ELSE IF IsZero(fund_tokens) THEN Err("WithdrawAmountZero")
    ELSE IF ~withdraw_has_tokens(ua.fund_tokens, fund_tokens)
         THEN Err("InsufficientFundTokens")
    ELSE
    Try(calculate_withdrawal_amount(fund_tokens, fs.nav_per_share), LAMBDA usdc_amount :
    IF ~withdraw_liquidity_ok(fs.cash_reserves, usdc_amount)
    THEN Err("InsufficientLiquidity")
    ELSE IF ~cpi_ok THEN Err("TransferFailed")
    ELSE
    Try(unchecked_mul(usdc_amount, <<100>>, overflow_checks), LAMBDA amount_8 :
    Try(checked_sub(fs.total_assets, amount_8), LAMBDA total_assets :
    Try(checked_sub(fs.total_shares, fund_tokens), LAMBDA total_shares :
    Try(withdraw_cash_reserves(fs.cash_reserves, usdc_amount), LAMBDA cash_reserves :
    Try(checked_sub(ua.fund_tokens, fund_tokens), LAMBDA user_tokens :
    Try(checked_add(ua.total_withdrawn, amount_8), LAMBDA total_withdrawn :
        Ok(Written([fs EXCEPT !.total_assets = total_assets,
                              !.total_shares = total_shares,
                              !.cash_reserves = cash_reserves],
                   [ua EXCEPT !.fund_tokens = user_tokens,
                              !.total_withdrawn = total_withdrawn,
                              !.withdrawal_count = @ + 1],
                   usdc_amount)))))))))

withdraw(fs, ua, fund_tokens, cpi_ok, overflow_checks) ==
    Outcome(withdraw_body(fs, ua, fund_tokens, cpi_ok, overflow_checks), fs, ua)

(***************************************************************************)
(* instructions/update_nav.rs                                              *)
(***************************************************************************)
\* the loop over new_asset_valuations, starting from total
RECURSIVE add_valuations(_, _, _)
add_valuations(total, valuations, i) ==
    IF i > Len(valuations) THEN Ok(total)
    ELSE Try(checked_add(total, valuations[i]), LAMBDA next :
             add_valuations(next, valuations, i + 1))

\* (-net_daily_pnl) as u64 for a negative P&L: negating i64::MIN overflows
negate_as_u64(pnl, overflow_checks) ==
    IF pnl.mag = TWO_63 /\ overflow_checks THEN Err("Panic") ELSE Ok(pnl.mag)

\* faulty variant: the magnitude is added whatever the sign
apply_pnl_unsigned(total, pnl, overflow_checks) == checked_add(total, pnl.mag)

apply_pnl(total, pnl, overflow_checks) ==
    IF ~pnl.neg THEN checked_add(total, pnl.mag)
    ELSE Try(negate_as_u64(pnl, overflow_checks), LAMBDA loss :
             checked_sub(total, loss))

\* faulty variant: an update exactly 23 hours after the last one is refused
update_nav_rate_ok_strict(time_since_last_update) ==
    time_since_last_update > NAV_UPDATE_INTERVAL

update_nav_rate_ok(time_since_last_update) ==
    time_since_last_update >= NAV_UPDATE_INTERVAL

update_nav_new_nav(new_total_assets, total_shares) ==
    checked_div(new_total_assets, total_shares)

\* faulty variant: the NAV is recomputed whatever the number of shares
update_nav_nav_per_share_unguarded(nav_per_share, new_total_assets, total_shares) ==
    update_nav_new_nav(new_total_assets, total_shares)

\* lines 50-53: the NAV is recomputed only when shares are outstanding
update_nav_nav_per_share(nav_per_share, new_total_assets, total_shares) ==
    IF Gt(total_shares, <<0>>)
    THEN update_nav_new_nav(new_total_assets, total_shares)
    ELSE Ok(nav_per_share)

\* lines 36-48: the new total, cash_reserves * 100 plus every valuation plus
\* the signed P&L
update_nav_new_total_assets(cash_reserves, valuations, pnl, overflow_checks) ==
    Try(unchecked_mul(cash_reserves, <<100>>, overflow_checks), LAMBDA cash_8 :
    Try(add_valuations(cash_8, valuations, 1), LAMBDA valued :
        apply_pnl(valued, pnl, overflow_checks)))

\* faulty variant: the share count is overwritten with the new total as well
update_nav_written_with_shares(fs, nav, new_total_assets, clock, yield) ==
    [fs EXCEPT !.nav_per_share = nav,
               !.total_assets = new_total_assets,
               !.total_shares = new_total_assets,
               !.last_nav_update = clock,
               !.total_yield_distributed = yield]

\* lines 52-61: the fields update_nav writes
update_nav_written(fs, nav, new_total_assets, clock, yield) ==
    [fs EXCEPT !.nav_per_share = nav,
               !.total_assets = new_total_assets,
               !.last_nav_update = clock,
               !.total_yield_distributed = yield]

\* faulty variant: the time of day instead of the time elapsed
time_since_last_update_of_day(clock, last_nav_update) ==
    (clock - last_nav_update) % 86400

time_since_last_update(clock, last_nav_update) == clock - last_nav_update

update_nav_body(fs, clock, valuations, pnl, overflow_checks) ==
    IF ~update_nav_rate_ok(time_since_last_update(clock, fs.last_nav_update))
    THEN Err("NAVUpdateTooFrequent")
    ELSE
    Try(update_nav_new_total_assets(fs.cash_reserves, valuations, pnl,
                                    overflow_checks), LAMBDA new_total_assets :
    Try(update_nav_nav_per_share(fs.nav_per_share, new_total_assets,
                                 fs.total_shares), LAMBDA nav :
    Try(IF ~pnl.neg /\ Gt(pnl.mag, <<0>>)
        THEN checked_add(fs.total_yield_distributed, pnl.mag)
        ELSE Ok(fs.total_yield_distributed), LAMBDA yield :
        Ok(Written(update_nav_written(fs, nav, new_total_assets, clock, yield),
                   <<>>, nav)))))

update_nav(fs, clock, valuations, pnl, overflow_checks) ==
    Outcome(update_nav_body(fs, clock, valuations, pnl, overflow_checks), fs, <<>>)

(***************************************************************************)
(* utils/calculations.rs: the NAV helpers.  They are library functions;    *)
(* the update_nav instruction above does its own arithmetic and calls      *)
(* neither.                                                                *)
(***************************************************************************)
calculate_nav_per_share(total_assets, total_shares) ==
    IF ~Gt(total_shares, <<0>>) THEN Err("NoSharesOutstanding")
    ELSE IF Lt(Div(Mul(total_assets, NAV_SCALE), total_shares), MIN_NAV)
    THEN Err("NAVTooLow")
    ELSE IF Gt(Div(Mul(total_assets, NAV_SCALE), total_shares), MAX_NAV)
    THEN Err("NAVTooHigh")
    ELSE to_u64(Div(Mul(total_assets, NAV_SCALE), total_shares))

\* the new total: the sum is not checked, the loss is compared first
update_nav_with_pnl_assets(current_total_assets, pnl, overflow_checks) ==
    IF ~pnl.neg
    THEN unchecked(Add(current_total_assets, pnl.mag), overflow_checks)
    ELSE Try(negate_as_u64(pnl, overflow_checks), LAMBDA loss :
             IF ~Le(loss, current_total_assets) THEN Err("InsufficientFunds")
             ELSE Ok(Sub(current_total_assets, loss)))

\* Result<(u64, u64)>: val is the pair (new_total_assets, new_nav)
update_nav_with_pnl(current_total_assets, total_shares, pnl, overflow_checks) ==
    Try(update_nav_with_pnl_assets(current_total_assets, pnl, overflow_checks),
        LAMBDA new_total_assets :
    Try(calculate_nav_per_share(new_total_assets, total_shares), LAMBDA new_nav :
        Ok(<<new_total_assets, new_nav>>)))

\* faulty variant: a ceiling below the rates initialize_fund accepts
MAX_ANNUAL_FEE_BPS_low == <<50>>

\* the ceiling on the annual management fee, in basis points
MAX_ANNUAL_FEE_BPS == <<500>>

\* faulty variant: the annual rate is divided by 365 before it is multiplied
\* by the assets
calculate_daily_management_fee_rate_first(total_assets, annual_fee_bps) ==
    IF ~Gt(total_assets, <<0>>) THEN Err("InvalidAmount")
    ELSE IF ~Le(annual_fee_bps, MAX_ANNUAL_FEE_BPS) THEN Err("FeeTooHigh")
    ELSE to_u64(Div(Mul(total_assets, Div(annual_fee_bps, <<365>>)), <<10, 000>>))

calculate_daily_management_fee(total_assets, annual_fee_bps) ==
    IF ~Gt(total_assets, <<0>>) THEN Err("InvalidAmount")
    ELSE IF ~Le(annual_fee_bps, MAX_ANNUAL_FEE_BPS) THEN Err("FeeTooHigh")
    ELSE to_u64(Div(Div(Mul(total_assets, annual_fee_bps), <<10, 000>>), <<365>>))

(***************************************************************************)
(* instructions/initialize_fund.rs and utils/validation.rs: the checks on  *)
(* the fund's parameters.                                                  *)
(***************************************************************************)
initialize_fund_checks(management_fee_bps, target_liquidity_ratio) ==
    IF ~Le(management_fee_bps, <<100>>) THEN Err("FeeTooHigh")
    ELSE IF ~(target_liquidity_ratio >= 10 /\ target_liquidity_ratio <= 50)
    THEN Err("InvalidLiquidityRatio")
    ELSE Ok(management_fee_bps)

validate_management_fee(fee_bps) ==
    IF ~Le(fee_bps, <<100>>) THEN Err("InvalidLiquidityRatio") ELSE Ok(<<0>>)

(***************************************************************************)
(* state/fixed_income_asset.rs and utils/validation.rs: the limits on an   *)
(* investment in a fixed income asset.                                     *)
(***************************************************************************)
FixedIncomeAssetType ==
    { "TreasuryBill", "TreasuryNote", "TreasuryBond", "CorporateBond",
      "CommercialPaper", "CertificateOfDeposit", "MunicipalBond",
      "AssetBackedSecurity", "MortgageBackedSecurity" }

\* faulty variant: every asset type is exempt from the issuer limit
is_treasury_any(asset_type) == TRUE

\* matches!(asset_type, TreasuryBill | TreasuryNote | TreasuryBond)
is_treasury(asset_type) ==
    asset_type \in {"TreasuryBill", "TreasuryNote", "TreasuryBond"}

\* the concentration limit of the asset type, in basis points; the function
\* binds it to a local that nothing reads
asset_type_limit(asset_type) ==
    IF is_treasury(asset_type) THEN <<8, 000>>
    ELSE IF asset_type = "CorporateBond" THEN <<4, 000>>
    ELSE IF asset_type = "CertificateOfDeposit" THEN <<3, 000>>
    ELSE <<2, 000>>

\* the single issuer limit; both sums are u64 additions without a check, and
\* a division by a total of zero aborts in every build
validate_issuer_limit(investment_amount, total_after_investment, same_issuer_total, overflow_checks) ==
    Try(unchecked(Add(same_issuer_total, investment_amount), overflow_checks),
        LAMBDA issuer_total_after :
        IF ~Le(Div(Mul(issuer_total_after, <<10, 000>>), total_after_investment),
               <<500>>)
        THEN Err("PortfolioConcentrationExceeded")
        ELSE Ok(<<0>>))

validate_investment_limits(investment_amount, current_portfolio_value, asset_type, same_issuer_total, overflow_checks) ==
    Try(unchecked(Add(current_portfolio_value, investment_amount), overflow_checks),
        LAMBDA total_after_investment :
        IF IsZero(total_after_investment) THEN Err("Panic")
        ELSE IF ~Le(Div(Mul(investment_amount, <<10, 000>>), total_after_investment),
                    <<1, 000>>)
        THEN Err("InvestmentAmountExceedsLimit")
        ELSE IF ~is_treasury(asset_type)
        THEN validate_issuer_limit(investment_amount, total_after_investment,
                                   same_issuer_total, overflow_checks)
        ELSE Ok(<<0>>))

\* faulty variant: every asset type is held to the general investment grade
\* rule only
validate_asset_type_rules_general(asset_type, credit_rating, days_to_maturity) ==
    IF ~(credit_rating <= 7) THEN Err("InvalidCreditRating") ELSE Ok(<<0>>)

\* the match on the asset type
validate_asset_type_rules(asset_type, credit_rating, days_to_maturity) ==
    IF asset_type = "TreasuryBill"
    THEN IF ~(days_to_maturity <= 365) THEN Err("InvalidFixedIncomeAssetData")
         ELSE IF ~(credit_rating = 1) THEN Err("InvalidCreditRating")
         ELSE Ok(<<0>>)
    ELSE IF asset_type \in {"TreasuryNote", "TreasuryBond"}
    THEN IF ~(credit_rating = 1) THEN Err("InvalidCreditRating") ELSE Ok(<<0>>)
    ELSE IF asset_type = "CorporateBond"
    THEN IF ~(credit_rating <= 5) THEN Err("InvalidCreditRating") ELSE Ok(<<0>>)
    ELSE IF asset_type = "CommercialPaper"
    THEN IF ~(days_to_maturity <= 270) THEN Err("InvalidFixedIncomeAssetData")
         ELSE IF ~(credit_rating <= 4) THEN Err("InvalidCreditRating")
         ELSE Ok(<<0>>)
    ELSE IF asset_type = "CertificateOfDeposit"
    THEN IF ~(credit_rating <= 3) THEN Err("InvalidCreditRating") ELSE Ok(<<0>>)
    ELSE IF ~(credit_rating <= 7) THEN Err("InvalidCreditRating") ELSE Ok(<<0>>)

\* current_time is the clock's unix_timestamp; the times are i64 seconds
validate_fixed_income_asset(asset_type, credit_rating, maturity_date, yield_rate, face_value, current_time) ==
    IF ~(credit_rating >= 1 /\ credit_rating <= 10) THEN Err("InvalidCreditRating")
    ELSE IF ~(credit_rating <= 7) THEN Err("InvalidCreditRating")
    ELSE IF ~(maturity_date > current_time) THEN Err("AssetAlreadyMatured")
    ELSE IF ~((maturity_date - current_time) \div 86400 >= 1)
    THEN Err("InvalidFixedIncomeAssetData")
    ELSE IF ~((maturity_date - current_time) \div 86400 <= 3650)
    THEN Err("InvalidFixedIncomeAssetData")
    ELSE IF ~(yield_rate >= 10 /\ yield_rate <= 20000)
    THEN Err("InvalidFixedIncomeAssetData")
    ELSE IF ~Ge(face_value, <<100, 000, 000, 000>>)
    THEN Err("InvalidFixedIncomeAssetData")
    ELSE IF ~Le(face_value, <<10, 000, 000, 000, 000, 000>>)
    THEN Err("InvalidFixedIncomeAssetData")
    ELSE validate_asset_type_rules(asset_type, credit_rating,
                                   (maturity_date - current_time) \div 86400)

\* faulty variant: a tolerance of 1% of the total assets
asset_tolerance_percent(total_assets) == Div(total_assets, <<100>>)

\* the tolerance on the total assets: 0.1%
asset_tolerance(total_assets) == Div(total_assets, <<1, 000>>)

\* the consistency check; the arithmetic is 128-bit and a violation of
\* either tolerance is reported with the error code MathOverflow
validate_fund_state_consistency(total_assets, total_shares, nav_per_share, cash_reserves, fixed_income_value) ==
    IF ~Le(AbsDiff(Add(Mul(cash_reserves, <<100>>), fixed_income_value),
                   total_assets),
           asset_tolerance(total_assets))
    THEN Err("MathOverflow")
    ELSE IF Gt(total_shares, <<0>>)
    THEN IF ~Le(AbsDiff(Div(Mul(total_assets, NAV_SCALE), total_shares),
                        nav_per_share),
                Div(nav_per_share, <<10, 000>>))
         THEN Err("MathOverflow")
         ELSE Ok(<<0>>)
    ELSE Ok(<<0>>)

(***************************************************************************)
(* instructions/admin.rs                                                   *)
(***************************************************************************)
pause_fund(fs) == [fs EXCEPT !.is_paused = TRUE]

\* faulty variant: unpausing starts the fund over with empty reserves
unpause_fund_resets(fs) == [fs EXCEPT !.is_paused = FALSE, !.cash_reserves = <<0>>]

unpause_fund(fs) == [fs EXCEPT !.is_paused = FALSE]

(***************************************************************************)
(* Bounds and the inputs the instructions are tried with.                  *)
(***************************************************************************)
MaxOps == 2
MaxTicks == 2

DepositAmounts ==
    { <<500, 000>>, <<1, 000, 000>>, <<1, 000, 000, 000>>, <<1, 000, 000, 000, 001>> }

WithdrawAmounts(ua) ==
    { <<0>>, <<1>>, ua.fund_tokens, Add(ua.fund_tokens, <<1>>) }

\* update_nav arguments: the valuations and the signed P&L
NavInput(valuations, pnl) == [valuations |-> valuations, pnl |-> pnl]

NavInputs ==
    { NavInput(<<>>, Pnl(FALSE, <<0>>)),
      NavInput(<<>>, Pnl(FALSE, <<5, 000, 000, 000>>)),
      NavInput(<<>>, Pnl(FALSE, <<6, 000, 000, 000>>)),
      NavInput(<<>>, Pnl(TRUE, <<5, 000, 000, 000>>)),
      NavInput(<<>>, Pnl(TRUE, <<6, 000, 000, 000>>)),
      NavInput(<< <<500, 000, 000>>, <<500, 000, 000>> >>, Pnl(FALSE, <<0>>)),
      NavInput(<< <<12, 000, 000, 000, 000, 000, 000>> >>, Pnl(FALSE, <<0>>)) }

TickSteps == {82799, 82800}

(***************************************************************************)
(* instructions/initialize_fund.rs: the fund right after initialization,   *)
(* at clock 0.  User accounts do not exist yet (all fields zero).          *)
(***************************************************************************)
initialize_fund(clock) ==
    [ total_assets |-> <<0>>, total_shares |-> <<0>>,
      nav_per_share |-> INITIAL_NAV, last_nav_update |-> clock,
      cash_reserves |-> <<0>>, fixed_income_value |-> <<0>>,
      is_paused |-> FALSE, total_yield_distributed |-> <<0>>,
      total_depositors |-> 0 ]

NoAccount ==
    [ initialized |-> FALSE, fund_tokens |-> <<0>>, total_deposited |-> <<0>>,
      total_withdrawn |-> <<0>>, deposit_count |-> 0, withdrawal_count |-> 0,
      avg_cost_basis |-> <<0>>, last_deposit_nav |-> <<0>> ]

NoArgs == [amount |-> <<0>>, valuations |-> <<>>, pnl |-> Pnl(FALSE, <<0>>)]

Record(op, user, args, r) ==
    [ op |-> op, user |-> user, args |-> args, err |-> r.err, out |-> r.out ]

NoCalc == [fn |-> "none", a |-> <<0>>, nav |-> <<0>>, minted |-> <<0>>, r |-> Ok(<<0>>)]

Init ==
    /\ calc = NoCalc
    /\ now = 0
    /\ fund_state = initialize_fund(0)
    /\ user_accounts = [u \in Users |-> NoAccount]
    /\ tokens = NoTokens
    /\ last = Record("initialize_fund", "admin", NoArgs, Ok(<<0>>))
    /\ ops = 0
    /\ ticks = 0

Committed(r) == IF r.err = "Ok" THEN ops + 1 ELSE ops

\* at most MaxOps instructions commit in a run
CanCommit(r) == r.err = "Ok" => ops < MaxOps

\* A run is followed up to its first rejected instruction: a rejected
\* instruction leaves every account and the clock as they were, so whatever
\* can follow it can also happen in its place.
Running == last.err = "Ok"

\* what an instruction called by u leaves behind: its result r is recorded,
\* the accounts it returns are stored, and the effects cpi of its calls into
\* the token program stay if it returned Ok
Processed(op, u, args, r, cpi(_)) ==
    /\ CanCommit(r)
    /\ tokens' = settle(r, tokens, cpi(r.out))
    /\ fund_state' = r.fund_state
    /\ user_accounts' = [v \in Users |-> IF v = u THEN r.user_account
                                          ELSE user_accounts[v]]
    /\ last' = Record(op, u, args, r)
    /\ ops' = Committed(r)
    /\ UNCHANGED <<now, ticks, calc>>

Deposit(u, amount, cpi_ok, overflow_checks) ==
    /\ Running
    /\ Processed("deposit", u, [NoArgs EXCEPT !.amount = amount],
                 deposit(fund_state, user_accounts[u], amount, cpi_ok, overflow_checks),
                 LAMBDA fund_tokens : deposit_cpi(tokens, amount, fund_tokens))

\* the Withdraw accounts require the caller's UserFundAccount to exist
Withdraw(u, fund_tokens, cpi_ok, overflow_checks) ==
    /\ Running
    /\ user_accounts[u].initialized
    /\ Processed("withdraw", u, [NoArgs EXCEPT !.amount = fund_tokens],
                 withdraw(fund_state, user_accounts[u], fund_tokens, cpi_ok,
                          overflow_checks),
                 LAMBDA usdc_amount : withdraw_cpi(tokens, fund_tokens, usdc_amount))

UpdateNav(valuations, pnl, overflow_checks) ==
    /\ Running
    /\ Processed("update_nav", "admin",
                 [NoArgs EXCEPT !.valuations = valuations, !.pnl = pnl],
                 update_nav(fund_state, now, valuations, pnl, overflow_checks),
                 LAMBDA nav : tokens)

PauseFund ==
    /\ Running
    /\ ops < MaxOps
    /\ fund_state' = pause_fund(fund_state)
    /\ last' = Record("pause_fund", "admin", NoArgs, Ok(<<0>>))
    /\ ops' = ops + 1
    /\ UNCHANGED <<user_accounts, tokens, now, ticks, calc>>

UnpauseFund ==
    /\ Running
    /\ ops < MaxOps
    /\ fund_state' = unpause_fund(fund_state)
    /\ last' = Record("unpause_fund", "admin", NoArgs, Ok(<<0>>))
    /\ ops' = ops + 1
    /\ UNCHANGED <<user_accounts, tokens, now, ticks, calc>>

\* the clock advances between instructions
Tick(d) ==
    /\ Running
    /\ ticks < MaxTicks
    /\ now' = now + d
    /\ ticks' = ticks + 1
    /\ last' = Record("tick", "clock", NoArgs, Ok(<<0>>))
    /\ UNCHANGED <<fund_state, user_accounts, tokens, ops, calc>>

\* An instruction behaves the same in every build unless one of its unchecked
\* operations overflows; then a build with overflow checks panics and one
\* without wraps.  deposit multiplies the amount by 100, update_nav the cash
\* reserves, and withdraw an amount that is at most the cash reserves.
Builds(overflowing) == IF overflowing THEN BOOLEAN ELSE {TRUE}

wraps(a, b) == Gt(Mul(a, b), U64_MAX)

Next ==
    \/ \E u \in Users, amount \in DepositAmounts, cpi_ok \in BOOLEAN :
          \E oc \in Builds(wraps(amount, <<100>>)) :
             Deposit(u, amount, cpi_ok, oc)
    \/ \E u \in Users, cpi_ok \in BOOLEAN :
          \E fund_tokens \in WithdrawAmounts(user_accounts[u]) :
             \E oc \in Builds(wraps(fund_state.cash_reserves, <<100>>)) :
                Withdraw(u, fund_tokens, cpi_ok, oc)
    \/ \E in \in NavInputs :
          \E oc \in Builds(wraps(fund_state.cash_reserves, <<100>>) \/ in.pnl.mag = TWO_63) :
             UpdateNav(in.valuations, in.pnl, oc)
    \/ PauseFund
    \/ UnpauseFund
    \/ \E d \in TickSteps : Tick(d)

Spec == Init /\ [][Next]_vars

(***************************************************************************)
(* The calculations of utils/calculations.rs applied on their own: the     *)
(* arguments are drawn at the start, then one function is applied; a       *)
(* minted share count can be fed back into the withdrawal calculation at   *)
(* the same NAV.                                                           *)
(***************************************************************************)
CalcAmounts ==
    { <<0>>, <<1>>, <<1, 000, 000>>, <<1, 000, 001>>, <<10, 000, 000>>,
      <<510, 000, 000>>, <<1, 000, 000, 000>>, <<50, 000, 000, 000>>,
      <<100, 000, 000, 000>>, <<999, 999, 999, 999>>, <<1, 000, 000, 000, 000>>,
      U64_MAX }

CalcNavs ==
    { <<0>>, <<1>>, <<95, 000, 000>>, <<99, 500, 000>>, <<100, 000, 000>>,
      <<102, 000, 000>>, <<104, 999, 999>>, <<105, 000, 000>>, U64_MAX }

InitCalc ==
    /\ calc \in { [NoCalc EXCEPT !.fn = "input", !.a = a, !.nav = nav] :
                    a \in CalcAmounts, nav \in CalcNavs }
    /\ now = 0
    /\ fund_state = initialize_fund(0)
    /\ user_accounts = [u \in Users |-> NoAccount]
    /\ tokens = NoTokens
    /\ last = Record("initialize_fund", "admin", NoArgs, Ok(<<0>>))
    /\ ops = 0
    /\ ticks = 0

CalcFundTokens ==
    /\ calc.fn = "input"
    /\ calc' = [calc EXCEPT !.fn = "calculate_fund_tokens",
                            !.r = calculate_fund_tokens(calc.a, calc.nav)]
    /\ UNCHANGED <<fund_state, user_accounts, tokens, now, last, ops, ticks>>

CalcWithdrawalAmount ==
    /\ calc.fn = "input"
    /\ calc' = [calc EXCEPT !.fn = "calculate_withdrawal_amount",
                            !.r = calculate_withdrawal_amount(calc.a, calc.nav)]
    /\ UNCHANGED <<fund_state, user_accounts, tokens, now, last, ops, ticks>>

\* withdraw everything a deposit of calc.a minted, at the same NAV
CalcRoundTrip ==
    /\ calc.fn = "calculate_fund_tokens"
    /\ calc.r.err = "Ok"
    /\ calc' = [calc EXCEPT !.fn = "round_trip",
                            !.minted = calc.r.val,
                            !.r = calculate_withdrawal_amount(calc.r.val, calc.nav)]
    /\ UNCHANGED <<fund_state, user_accounts, tokens, now, last, ops, ticks>>

NextCalc == CalcFundTokens \/ CalcWithdrawalAmount \/ CalcRoundTrip

SpecCalc == InitCalc /\ [][NextCalc]_vars

(***************************************************************************)
(* Deposits alone, with amounts at and around the per-transaction bounds.  *)
(***************************************************************************)
BoundaryAmounts ==
    { <<999, 999>>, <<1, 000, 000>>, <<5, 000, 000>>, <<9, 999, 999>>,
      <<10, 000, 000>>, <<1, 000, 000, 000, 000>>, <<1, 000, 000, 000, 001>> }

NextDeposits ==
    \E u \in Users, amount \in BoundaryAmounts, cpi_ok \in BOOLEAN :
       Deposit(u, amount, cpi_ok, TRUE)

SpecDeposits == Init /\ [][NextDeposits]_vars

(***************************************************************************)
(* Deposits and withdrawals after the NAV has moved.  The run starts where *)
(* the program is once alice has deposited 1,000,000,000 at the initial    *)
(* NAV and, 23 hours later, one NAV update with a P&L has committed; ops   *)
(* counts the instructions committed from there on.                        *)
(***************************************************************************)
SeedAmount == <<1, 000, 000, 000>>

SeedDeposit == deposit(initialize_fund(0), NoAccount, SeedAmount, TRUE, TRUE)

SeedPnls ==
    { Pnl(FALSE, <<2, 000, 000, 000>>), Pnl(TRUE, <<2, 000, 000, 000>>),
      Pnl(FALSE, <<5, 000, 000, 000>>) }

SeedUpdate(pnl) ==
    update_nav(SeedDeposit.fund_state, NAV_UPDATE_INTERVAL, <<>>, pnl, TRUE)

InitMoved ==
    /\ \E pnl \in SeedPnls :
          /\ fund_state = SeedUpdate(pnl).fund_state
          /\ last = Record("update_nav", "admin", [NoArgs EXCEPT !.pnl = pnl],
                           SeedUpdate(pnl))
    /\ user_accounts = [u \in Users |-> IF u = "alice" THEN SeedDeposit.user_account
                                         ELSE NoAccount]
    /\ tokens = deposit_cpi(NoTokens, SeedAmount, SeedDeposit.out)
    /\ now = NAV_UPDATE_INTERVAL
    /\ calc = NoCalc
    /\ ops = 0
    /\ ticks = 0

MovedAmounts == { <<1, 000, 000>>, <<510, 000, 000>>, <<1, 000, 000, 000>> }

NextMoved ==
    \/ \E u \in Users, amount \in MovedAmounts :
          Deposit(u, amount, TRUE, TRUE)
    \/ \E u \in Users :
          \E fund_tokens \in WithdrawAmounts(user_accounts[u]) :
             Withdraw(u, fund_tokens, TRUE, TRUE)

SpecMoved == InitMoved /\ [][NextMoved]_vars

(***************************************************************************)
(* The arithmetic of a NAV update applied on its own to 64-bit arguments:  *)
(* the accumulation of the update_nav instruction and the helper           *)
(* update_nav_with_pnl.  amount is the u64 the function starts from:       *)
(* cash_reserves for the instruction, current_total_assets for the helper. *)
(***************************************************************************)
I64_MAX == <<9, 223, 372, 036, 854, 775, 807>>

TotalAmounts ==
    { <<0>>, <<1, 000, 000>>, <<1, 000, 000, 000, 000>>,
      <<184, 467, 440, 737, 095, 516>>, <<184, 467, 440, 737, 095, 517>>,
      U64_MAX }

TotalValuations ==
    { <<>>, << <<500, 000, 000>>, <<500, 000, 000>> >>, << U64_MAX >>,
      << <<1>>, U64_MAX >> }

TotalPnls ==
    { Pnl(FALSE, <<0>>), Pnl(FALSE, <<123, 287, 671>>), Pnl(FALSE, I64_MAX),
      Pnl(TRUE, <<1>>), Pnl(TRUE, <<5, 000, 000, 000>>), Pnl(TRUE, TWO_63) }

TotalShares == { <<0>>, <<1, 000, 000, 000, 000>> }

NavCalc(amount, valuations, pnl, total_shares) ==
    [ fn |-> "input", amount |-> amount, valuations |-> valuations, pnl |-> pnl,
      total_shares |-> total_shares, overflow_checks |-> TRUE, r |-> Ok(<<0>>) ]

InitTotals ==
    /\ calc \in { NavCalc(a, v, p, s) : a \in TotalAmounts, v \in TotalValuations,
                                        p \in TotalPnls, s \in TotalShares }
    /\ now = 0
    /\ fund_state = initialize_fund(0)
    /\ user_accounts = [u \in Users |-> NoAccount]
    /\ tokens = NoTokens
    /\ last = Record("initialize_fund", "admin", NoArgs, Ok(<<0>>))
    /\ ops = 0
    /\ ticks = 0

CalcNewTotalAssets(overflow_checks) ==
    /\ calc.fn = "input"
    /\ calc' = [calc EXCEPT !.fn = "update_nav_new_total_assets",
                            !.overflow_checks = overflow_checks,
                            !.r = update_nav_new_total_assets(
                                     calc.amount, calc.valuations, calc.pnl,
                                     overflow_checks)]
    /\ UNCHANGED <<fund_state, user_accounts, tokens, now, last, ops, ticks>>

CalcUpdateNavWithPnl(overflow_checks) ==
    /\ calc.fn = "input"
    /\ calc.valuations = <<>>
    /\ calc' = [calc EXCEPT !.fn = "update_nav_with_pnl",
                            !.overflow_checks = overflow_checks,
                            !.r = update_nav_with_pnl(
                                     calc.amount, calc.total_shares, calc.pnl,
                                     overflow_checks)]
    /\ UNCHANGED <<fund_state, user_accounts, tokens, now, last, ops, ticks>>

NextTotals ==
    \/ \E oc \in BOOLEAN : CalcNewTotalAssets(oc)
    \/ \E oc \in BOOLEAN : CalcUpdateNavWithPnl(oc)

SpecTotals == InitTotals /\ [][NextTotals]_vars

(***************************************************************************)
(* Deposits at the lowest allowed NAV into a fund whose ledger is close to *)
(* the 64-bit limit.  alice holds every share; each run starts from one of *)
(* the ledgers below, which leave exactly the room a deposit of            *)
(* 1,000,000,000,000 needs (100,000,000,000,000 at 8 decimals, 1,052,631   *)
(* shares at NAV 95,000,000), or one unit less.                            *)
(***************************************************************************)
Ledger(total_assets, total_shares, cash_reserves, total_deposited, avg_cost_basis) ==
    [ total_assets |-> total_assets, total_shares |-> total_shares,
      cash_reserves |-> cash_reserves, total_deposited |-> total_deposited,
      avg_cost_basis |-> avg_cost_basis ]

SmallLedger == Ledger(<<95, 000, 000>>, <<1>>, <<950, 000>>, <<95, 000, 000>>, MIN_NAV)

LimitLedgers ==
    { SmallLedger,
      [SmallLedger EXCEPT !.total_assets = <<18, 446, 644, 073, 709, 551, 615>>],
      [SmallLedger EXCEPT !.total_assets = <<18, 446, 644, 073, 709, 551, 616>>],
      [SmallLedger EXCEPT !.total_shares = <<18, 446, 744, 073, 708, 498, 984>>,
                          !.avg_cost_basis = <<1>>],
      [SmallLedger EXCEPT !.total_shares = <<18, 446, 744, 073, 708, 498, 985>>,
                          !.avg_cost_basis = <<1>>],
      [SmallLedger EXCEPT !.cash_reserves = <<18, 446, 743, 073, 709, 551, 616>>],
      [SmallLedger EXCEPT !.total_deposited = <<18, 446, 644, 073, 709, 551, 616>>],
      [SmallLedger EXCEPT !.total_shares = <<194, 176, 253, 407>>],
      [SmallLedger EXCEPT !.total_shares = <<194, 176, 253, 408>>] }

LimitAmounts ==
    { <<999, 999>>, <<1, 000, 000>>, <<1, 000, 000, 000, 000>>,
      <<1, 000, 000, 000, 001>>, <<184, 467, 440, 737, 095, 517>>, U64_MAX }

InitLimits ==
    /\ \E l \in LimitLedgers :
          /\ fund_state = [initialize_fund(0) EXCEPT
                             !.nav_per_share = MIN_NAV,
                             !.total_assets = l.total_assets,
                             !.total_shares = l.total_shares,
                             !.cash_reserves = l.cash_reserves,
                             !.total_depositors = 1]
          /\ user_accounts =
                [u \in Users |->
                   IF u = "alice"
                   THEN [NoAccount EXCEPT !.initialized = TRUE,
                                          !.fund_tokens = l.total_shares,
                                          !.total_deposited = l.total_deposited,
                                          !.deposit_count = 1,
                                          !.avg_cost_basis = l.avg_cost_basis,
                                          !.last_deposit_nav = l.avg_cost_basis]
                   ELSE NoAccount]
          /\ tokens = [usdc_vault |-> l.cash_reserves,
                       fund_token_supply |-> l.total_shares]
    /\ last = Record("initialize_fund", "admin", NoArgs, Ok(<<0>>))
    /\ now = 0
    /\ calc = NoCalc
    /\ ops = 0
    /\ ticks = 0

NextLimits ==
    \E u \in Users, amount \in LimitAmounts, oc \in BOOLEAN :
       Deposit(u, amount, TRUE, oc)

SpecLimits == InitLimits /\ [][NextLimits]_vars

(***************************************************************************)
(* The management fee.  A run draws the total assets and the parameters    *)
(* of initialize_fund, then either applies calculate_daily_management_fee  *)
(* or validate_management_fee to the rate as it is, or initializes a fund  *)
(* with the parameters and computes the daily fee at the rate the fund has *)
(* stored.                                                                 *)
(***************************************************************************)
FeeAssets ==
    { <<0>>, <<1>>, <<7, 300>>, <<243, 333>>, <<243, 334>>,
      <<1, 000, 000, 000, 000>>, U64_MAX }

FeeRates ==
    { <<0>>, <<1>>, <<15>>, <<100>>, <<101>>, <<364>>, <<365>>, <<500>>,
      <<501>>, <<65, 535>> }

LiquidityRatios == {9, 10, 50, 51}

FeeCalc(total_assets, management_fee_bps, target_liquidity_ratio) ==
    [ fn |-> "input", total_assets |-> total_assets,
      management_fee_bps |-> management_fee_bps,
      target_liquidity_ratio |-> target_liquidity_ratio, r |-> Ok(<<0>>) ]

InitFee ==
    /\ calc \in { FeeCalc(a, f, l) : a \in FeeAssets, f \in FeeRates,
                                     l \in LiquidityRatios }
    /\ now = 0
    /\ fund_state = initialize_fund(0)
    /\ user_accounts = [u \in Users |-> NoAccount]
    /\ tokens = NoTokens
    /\ last = Record("initialize_fund", "admin", NoArgs, Ok(<<0>>))
    /\ ops = 0
    /\ ticks = 0

CalcDailyManagementFee ==
    /\ calc.fn = "input"
    /\ calc' = [calc EXCEPT !.fn = "calculate_daily_management_fee",
                            !.r = calculate_daily_management_fee(
                                     calc.total_assets, calc.management_fee_bps)]
    /\ UNCHANGED <<fund_state, user_accounts, tokens, now, last, ops, ticks>>

CalcValidateManagementFee ==
    /\ calc.fn = "input"
    /\ calc' = [calc EXCEPT !.fn = "validate_management_fee",
                            !.r = validate_management_fee(calc.management_fee_bps)]
    /\ UNCHANGED <<fund_state, user_accounts, tokens, now, last, ops, ticks>>

CalcInitializeFund ==
    /\ calc.fn = "input"
    /\ calc' = [calc EXCEPT !.fn = "initialize_fund",
                            !.r = initialize_fund_checks(
                                     calc.management_fee_bps,
                                     calc.target_liquidity_ratio)]
    /\ UNCHANGED <<fund_state, user_accounts, tokens, now, last, ops, ticks>>

\* the daily fee of an initialized fund, at its stored management_fee_bps
CalcFundFee ==
    /\ calc.fn = "initialize_fund"
    /\ calc.r.err = "Ok"
    /\ calc' = [calc EXCEPT !.fn = "fund_fee",
                            !.r = calculate_daily_management_fee(
                                     calc.total_assets, calc.r.val)]
    /\ UNCHANGED <<fund_state, user_accounts, tokens, now, last, ops, ticks>>

NextFee ==
    \/ CalcDailyManagementFee
    \/ CalcValidateManagementFee
    \/ CalcInitializeFund
    \/ CalcFundFee

SpecFee == InitFee /\ [][NextFee]_vars

(***************************************************************************)
(* validate_investment_limits applied on its own: a run draws the          *)
(* investment, the portfolio value, the asset type and the amount already  *)
(* held of the same issuer, then applies the function in either build.     *)
(***************************************************************************)
PortfolioValues ==
    { <<0>>, <<900>>, <<950>>, <<1, 000>>, <<9, 000>>,
      <<18, 446, 744, 073, 709, 551, 515>>, U64_MAX }

InvestmentAmounts ==
    { <<0>>, <<1>>, <<50>>, <<100>>, <<112>>, <<1, 001>>, U64_MAX }

IssuerTotals == { <<0>>, <<1>>, <<900>>, U64_MAX }

InvestCalc(investment_amount, current_portfolio_value, asset_type, same_issuer_total) ==
    [ fn |-> "input", investment_amount |-> investment_amount,
      current_portfolio_value |-> current_portfolio_value,
      asset_type |-> asset_type, same_issuer_total |-> same_issuer_total,
      overflow_checks |-> TRUE, r |-> Ok(<<0>>) ]

InitInvest ==
    /\ calc \in { InvestCalc(i, p, t, s) :
                     i \in InvestmentAmounts, p \in PortfolioValues,
                     t \in FixedIncomeAssetType, s \in IssuerTotals }
    /\ now = 0
    /\ fund_state = initialize_fund(0)
    /\ user_accounts = [u \in Users |-> NoAccount]
    /\ tokens = NoTokens
    /\ last = Record("initialize_fund", "admin", NoArgs, Ok(<<0>>))
    /\ ops = 0
    /\ ticks = 0

CalcInvestmentLimits(overflow_checks) ==
    /\ calc.fn = "input"
    /\ calc' = [calc EXCEPT !.fn = "validate_investment_limits",
                            !.overflow_checks = overflow_checks,
                            !.r = validate_investment_limits(
                                     calc.investment_amount,
                                     calc.current_portfolio_value,
                                     calc.asset_type, calc.same_issuer_total,
                                     overflow_checks)]
    /\ UNCHANGED <<fund_state, user_accounts, tokens, now, last, ops, ticks>>

NextInvest == \E oc \in BOOLEAN : CalcInvestmentLimits(oc)

SpecInvest == InitInvest /\ [][NextInvest]_vars

(***************************************************************************)
(* validate_fixed_income_asset applied on its own: a run draws the clock   *)
(* and the asset's type, rating, time to maturity, yield and face value,   *)
(* then applies the function.                                              *)
(***************************************************************************)
SecondsPerDay == 86400

CreditRatings == {0, 1, 2, 3, 4, 5, 6, 7, 8, 10, 11}

ClockTimes == {0, 1000000}

\* seconds from the clock to the maturity date
MaturityOffsets ==
    { -SecondsPerDay, 0, SecondsPerDay - 1, SecondsPerDay,
      270 * SecondsPerDay, 270 * SecondsPerDay + SecondsPerDay - 1,
      271 * SecondsPerDay, 365 * SecondsPerDay,
      365 * SecondsPerDay + SecondsPerDay - 1, 366 * SecondsPerDay,
      3650 * SecondsPerDay, 3651 * SecondsPerDay }

YieldRates == {9, 10, 20001}

FaceValues ==
    { <<99, 999, 999, 999>>, <<100, 000, 000, 000>>,
      <<10, 000, 000, 000, 000, 001>> }

AssetCalc(asset_type, credit_rating, maturity_date, yield_rate, face_value, current_time) ==
    [ fn |-> "input", asset_type |-> asset_type, credit_rating |-> credit_rating,
      maturity_date |-> maturity_date, yield_rate |-> yield_rate,
      face_value |-> face_value, current_time |-> current_time,
      r |-> Ok(<<0>>) ]

InitAsset ==
    /\ calc \in { AssetCalc(t, c, n + m, y, f, n) :
                     t \in FixedIncomeAssetType, c \in CreditRatings,
                     m \in MaturityOffsets, y \in YieldRates,
                     f \in FaceValues, n \in ClockTimes }
    /\ now = 0
    /\ fund_state = initialize_fund(0)
    /\ user_accounts = [u \in Users |-> NoAccount]
    /\ tokens = NoTokens
    /\ last = Record("initialize_fund", "admin", NoArgs, Ok(<<0>>))
    /\ ops = 0
    /\ ticks = 0

CalcValidateAsset ==
    /\ calc.fn = "input"
    /\ calc' = [calc EXCEPT !.fn = "validate_fixed_income_asset",
                            !.r = validate_fixed_income_asset(
                                     calc.asset_type, calc.credit_rating,
                                     calc.maturity_date, calc.yield_rate,
                                     calc.face_value, calc.current_time)]
    /\ UNCHANGED <<fund_state, user_accounts, tokens, now, last, ops, ticks>>

NextAsset == CalcValidateAsset

SpecAsset == InitAsset /\ [][NextAsset]_vars

(***************************************************************************)
(* validate_fund_state_consistency applied on its own to drawn ledger      *)
(* values, at and around both tolerances.                                  *)
(***************************************************************************)
CheckAssets == { <<0>>, <<100, 000>>, U64_MAX }

CheckCash == { <<0>>, <<998>>, <<999>>, <<1, 000>>, U64_MAX }

CheckFixedIncome == { <<0>>, <<100>>, <<101>>, U64_MAX }

CheckShares == { <<0>>, <<1>>, <<100, 000>>, U64_MAX }

CheckNavs ==
    { <<0>>, <<99, 990, 000>>, <<99, 990, 001>>, <<100, 000, 000>>,
      <<100, 010, 000>>, <<100, 010, 002>>, U64_MAX }

CheckCalc(total_assets, total_shares, nav_per_share, cash_reserves, fixed_income_value) ==
    [ fn |-> "input", total_assets |-> total_assets, total_shares |-> total_shares,
      nav_per_share |-> nav_per_share, cash_reserves |-> cash_reserves,
      fixed_income_value |-> fixed_income_value, r |-> Ok(<<0>>) ]

InitCheck ==
    /\ calc \in { CheckCalc(a, s, n, c, f) :
                     a \in CheckAssets, s \in CheckShares, n \in CheckNavs,
                     c \in CheckCash, f \in CheckFixedIncome }
    /\ now = 0
    /\ fund_state = initialize_fund(0)
    /\ user_accounts = [u \in Users |-> NoAccount]
    /\ tokens = NoTokens
    /\ last = Record("initialize_fund", "admin", NoArgs, Ok(<<0>>))
    /\ ops = 0
    /\ ticks = 0

CalcConsistency ==
    /\ calc.fn = "input"
    /\ calc' = [calc EXCEPT !.fn = "validate_fund_state_consistency",
                            !.r = validate_fund_state_consistency(
                                     calc.total_assets, calc.total_shares,
                                     calc.nav_per_share, calc.cash_reserves,
                                     calc.fixed_income_value)]
    /\ UNCHANGED <<fund_state, user_accounts, tokens, now, last, ops, ticks>>

NextCheck == CalcConsistency

SpecCheck == InitCheck /\ [][NextCheck]_vars

(***************************************************************************)
(* Pausing and resubmitting.  The run starts from the funds of SpecMoved,  *)
(* paused or not.  A deposit or withdraw rejected with FundPaused ends a   *)
(* run unless the administrator unpauses the fund next; that step notes    *)
(* in calc the rejected call and the accounts as it found them, and the    *)
(* instructions that follow include the same call again.                   *)
(***************************************************************************)
InitPause ==
    /\ \E pnl \in SeedPnls, paused \in BOOLEAN :
          /\ fund_state = [SeedUpdate(pnl).fund_state EXCEPT !.is_paused = paused]
          /\ last = Record("update_nav", "admin", [NoArgs EXCEPT !.pnl = pnl],
                           SeedUpdate(pnl))
    /\ user_accounts = [u \in Users |-> IF u = "alice" THEN SeedDeposit.user_account
                                         ELSE NoAccount]
    /\ tokens = deposit_cpi(NoTokens, SeedAmount, SeedDeposit.out)
    /\ now = NAV_UPDATE_INTERVAL
    /\ calc = NoCalc
    /\ ops = 0
    /\ ticks = 0

Rejected(op, user, args, fs, uas) ==
    [ fn |-> "rejected", op |-> op, user |-> user, args |-> args,
      fund_state |-> fs, user_accounts |-> uas ]

UnpauseRejected ==
    /\ last.err = "FundPaused"
    /\ ops < MaxOps
    /\ fund_state' = unpause_fund(fund_state)
    /\ calc' = Rejected(last.op, last.user, last.args, fund_state, user_accounts)
    /\ last' = Record("unpause_fund", "admin", NoArgs, Ok(<<0>>))
    /\ ops' = ops + 1
    /\ UNCHANGED <<user_accounts, tokens, now, ticks>>

NextPause ==
    \/ \E u \in Users, amount \in MovedAmounts :
          Deposit(u, amount, TRUE, TRUE)
    \/ \E u \in Users :
          \E fund_tokens \in WithdrawAmounts(user_accounts[u]) :
             Withdraw(u, fund_tokens, TRUE, TRUE)
    \/ PauseFund
    \/ UnpauseFund
    \/ UnpauseRejected

SpecPause == InitPause /\ [][NextPause]_vars

(***************************************************************************)
(* Resubmitting a NAV update.  The run starts from the funds of SpecMoved, *)
(* whose NAV has just been updated, so every update is refused at first.   *)
(* A refusal with NAVUpdateTooFrequent ends a run unless the clock         *)
(* advances next; that step notes in calc the refused call and the fund    *)
(* state as it found it, and the updates that follow include the same      *)
(* call again.                                                             *)
(***************************************************************************)
WaitRejected(d) ==
    /\ last.err = "NAVUpdateTooFrequent"
    /\ ticks < MaxTicks
    /\ now' = now + d
    /\ ticks' = ticks + 1
    /\ calc' = Rejected(last.op, last.user, last.args, fund_state, user_accounts)
    /\ last' = Record("tick", "clock", NoArgs, Ok(<<0>>))
    /\ UNCHANGED <<fund_state, user_accounts, tokens, ops>>

NextRetry ==
    \/ \E in \in NavInputs : UpdateNav(in.valuations, in.pnl, TRUE)
    \/ \E d \in TickSteps : WaitRejected(d)

SpecRetry == InitMoved /\ [][NextRetry]_vars

(***************************************************************************)
(* Deposits and withdrawals at one NAV.  The run starts after alice's      *)
(* deposit of SpecMoved, with the NAV left at its initial value or moved   *)
(* by one update, and after a first deposit by bob at that NAV; from there *)
(* on only deposits and withdrawals happen, so every share bob holds was   *)
(* minted at the NAV it is redeemed at.                                    *)
(***************************************************************************)
RoundFunds == { SeedDeposit.fund_state } \cup { SeedUpdate(pnl).fund_state : pnl \in SeedPnls }

RoundAmounts == { <<1, 000, 000>>, <<1, 500, 000>>, <<510, 000, 000>>, <<1, 000, 000, 000>> }

FirstDeposit(fs, amount) == deposit(fs, NoAccount, amount, TRUE, TRUE)

InitRound ==
    /\ \E fs \in RoundFunds, amount \in RoundAmounts :
          /\ FirstDeposit(fs, amount).err = "Ok"
          /\ fund_state = FirstDeposit(fs, amount).fund_state
          /\ user_accounts = [u \in Users |->
                                IF u = "alice" THEN SeedDeposit.user_account
                                ELSE FirstDeposit(fs, amount).user_account]
          /\ tokens = deposit_cpi(deposit_cpi(NoTokens, SeedAmount, SeedDeposit.out),
                                  amount, FirstDeposit(fs, amount).out)
          /\ last = Record("deposit", "bob", [NoArgs EXCEPT !.amount = amount],
                           FirstDeposit(fs, amount))
    /\ now = NAV_UPDATE_INTERVAL
    /\ calc = NoCalc
    /\ ops = 0
    /\ ticks = 0

NextRound ==
    \/ \E u \in Users, amount \in RoundAmounts :
          Deposit(u, amount, TRUE, TRUE)
    \/ \E u \in Users :
          \E fund_tokens \in WithdrawAmounts(user_accounts[u]) :
             Withdraw(u, fund_tokens, TRUE, TRUE)

SpecRound == InitRound /\ [][NextRound]_vars

(***************************************************************************)
(* Properties.                                                             *)
(***************************************************************************)
TEN_POW_10 == <<10, 000, 000, 000>>

InRange(x, lo, hi) == Ge(x, lo) /\ Le(x, hi)

RECURSIVE SumFundTokens(_)
SumFundTokens(S) ==
    IF S = {} THEN <<0>>
    ELSE LET u == CHOOSE v \in S : TRUE
         IN Add(user_accounts[u].fund_tokens, SumFundTokens(S \ {u}))

Committed_(op) == last.op = op /\ last.err = "Ok"

\* C1: the shares minted for a deposit are floor(amount * 10^10 / nav_per_share)
\* (1,000,000,000 at NAV 100,000,000 mints 100,000,000,000).
C1_SharesMinted ==
    (calc.fn = "calculate_fund_tokens" /\ calc.r.err = "Ok")
        => calc.r.val = Div(Mul(calc.a, TEN_POW_10), calc.nav)

\* C2: for shares > 0 and nav > 0 the withdrawal amount is
\* floor(floor(shares * nav / 10^8) / 100), that is the one value v with
\* v * 10^10 <= shares * nav < (v + 1) * 10^10; the calculation fails with
\* MathOverflow exactly when that value does not fit in 64 bits; 100,000,000,000
\* shares at NAV 102,000,000 return 1,020,000,000.
C2_WithdrawalAmount ==
    (calc.fn = "calculate_withdrawal_amount" /\ Gt(calc.a, <<0>>) /\ Gt(calc.nav, <<0>>))
        => LET product == Mul(calc.a, calc.nav)
               expected == Div(Div(product, <<100, 000, 000>>), <<100>>)
           IN /\ Le(Mul(expected, TEN_POW_10), product)
              /\ Lt(product, Mul(Add(expected, <<1>>), TEN_POW_10))
              /\ IF Le(expected, U64_MAX) THEN calc.r = Ok(expected)
                 ELSE calc.r.err = "MathOverflow"
              /\ (calc.a = <<100, 000, 000, 000>> /\ calc.nav = <<102, 000, 000>>)
                    => calc.r = Ok(<<1, 020, 000, 000>>)

C2_Witness ==
    /\ calc.fn = "calculate_withdrawal_amount"
    /\ calc.a = <<100, 000, 000, 000>>
    /\ calc.nav = <<102, 000, 000>>
    /\ calc.r = Ok(<<1, 020, 000, 000>>)

\* C3: in every reachable state with shares outstanding,
\* 95,000,000 <= nav_per_share <= 105,000,000.
C3_NavWithinBounds ==
    Gt(fund_state.total_shares, <<0>>)
        => InRange(fund_state.nav_per_share, <<95, 000, 000>>, <<105, 000, 000>>)

\* C4 (invariant I3): the fund_tokens of all user accounts add up to
\* total_shares in every reachable state.
C4_SharesMatchUserTokens == SumFundTokens(Users) = fund_state.total_shares

C4_Witness ==
    /\ Committed_("withdraw")
    /\ Gt(fund_state.total_shares, <<0>>)
    /\ \E u \in Users : last.user = u /\ user_accounts[u].withdrawal_count > 0

\* C5 (invariant I2): after every committed deposit, withdraw or update_nav
\* that leaves shares outstanding, nav_per_share is within
\* floor(nav_per_share / 10,000) of floor(total_assets * 10^8 / total_shares).
C5_NavReconcilesAfterCommit ==
    (last.op \in {"deposit", "withdraw", "update_nav"} /\ last.err = "Ok"
       /\ Gt(fund_state.total_shares, <<0>>))
        => Le(AbsDiff(fund_state.nav_per_share,
                      Div(Mul(fund_state.total_assets, <<100, 000, 000>>),
                          fund_state.total_shares)),
              Div(fund_state.nav_per_share, <<10, 000>>))

\* C6 (invariant I1): in every reachable state total_assets is within
\* floor(total_assets / 1000) of cash_reserves * 100 + fixed_income_value.
C6_AssetsReconcile ==
    Le(AbsDiff(fund_state.total_assets,
               Add(Mul(fund_state.cash_reserves, <<100>>), fund_state.fixed_income_value)),
       Div(fund_state.total_assets, <<1, 000>>))

\* C7: depositing a valid amount A at a NAV in [95,000,000, 105,000,000] and
\* withdrawing all the minted shares at the same NAV returns at most A and at
\* least A - 2.
C7_RoundTrip ==
    (calc.fn = "round_trip"
       /\ InRange(calc.a, MIN_DEPOSIT, MAX_DEPOSIT)
       /\ InRange(calc.nav, <<95, 000, 000>>, <<105, 000, 000>>))
        => /\ calc.r.err = "Ok"
           /\ Le(calc.r.val, calc.a)
           /\ Le(Sub(calc.a, calc.r.val), <<2>>)

\* C8: update_nav commits only a NAV within [95,000,000, 105,000,000]; an
\* update whose recomputed NAV is outside is rejected.
C8_UpdateNavCommitsBoundedNav ==
    (Committed_("update_nav") /\ Gt(fund_state.total_shares, <<0>>))
        => /\ Ge(fund_state.nav_per_share, <<95, 000, 000>>)
           /\ Le(fund_state.nav_per_share, <<105, 000, 000>>)

\* C9: update_nav fails with NAVUpdateTooFrequent exactly when less than
\* 82,800 seconds have passed since last_nav_update, and then leaves the fund
\* state as it was; a committed update sets last_nav_update to the clock, and
\* nothing else moves last_nav_update, so committed updates are at least
\* 82,800 seconds apart and the first is that long after initialization.
C9_Step ==
    /\ last'.op = "update_nav"
         => /\ (last'.err = "NAVUpdateTooFrequent")
                  <=> (now - fund_state.last_nav_update < 82800)
            /\ last'.err = "NAVUpdateTooFrequent" => fund_state' = fund_state
            /\ last'.err = "Ok"
                  => /\ fund_state'.last_nav_update = now
                     /\ now - fund_state.last_nav_update >= 82800
    /\ fund_state'.last_nav_update # fund_state.last_nav_update
         => (last'.op = "update_nav" /\ last'.err = "Ok")

C9_RateLimit == [][C9_Step]_vars

C9_Witness ==
    /\ last.op = "update_nav"
    /\ last.err = "NAVUpdateTooFrequent"
    /\ fund_state.last_nav_update >= 82800
    /\ now - fund_state.last_nav_update = 82799

\* C10: a withdraw whose computed amount exceeds cash_reserves is rejected
\* (with InsufficientLiquidity once the pause and share-count checks have
\* passed) and changes neither the fund state nor any user account; a
\* committed withdraw burns exactly the requested shares and pays exactly
\* the computed amount.
C10_Step ==
    last'.op = "withdraw"
      => LET u == last'.user
             shares == last'.args.amount
             paid == calculate_withdrawal_amount(shares, fund_state.nav_per_share)
         IN /\ (paid.err = "Ok" /\ Gt(paid.val, fund_state.cash_reserves))
                 => /\ last'.err # "Ok"
                    /\ UNCHANGED <<fund_state, user_accounts>>
                    /\ (~fund_state.is_paused /\ Gt(shares, <<0>>)
                          /\ Le(shares, user_accounts[u].fund_tokens))
                         => last'.err = "InsufficientLiquidity"
            /\ last'.err = "InsufficientLiquidity"
                 => /\ Gt(paid.val, fund_state.cash_reserves)
                    /\ UNCHANGED <<fund_state, user_accounts>>
            /\ last'.err = "Ok"
                 => /\ last'.out = paid.val
                    /\ Add(fund_state'.total_shares, shares) = fund_state.total_shares
                    /\ Add(user_accounts'[u].fund_tokens, shares) = user_accounts[u].fund_tokens
                    /\ Add(fund_state'.cash_reserves, paid.val) = fund_state.cash_reserves

C10_LiquidityGuard == [][C10_Step]_vars

C10_Witness ==
    /\ last.op = "withdraw"
    /\ last.err = "InsufficientLiquidity"
    /\ Gt(calculate_withdrawal_amount(last.args.amount, fund_state.nav_per_share).val,
          fund_state.cash_reserves)

\* C11: while is_paused is true every deposit and every withdraw fails with
\* FundPaused, whatever its arguments, and changes neither the fund state,
\* nor any user account, nor the vault or the share supply.
C11_Step ==
    (last'.op \in {"deposit", "withdraw"} /\ fund_state.is_paused)
        => /\ last'.err = "FundPaused"
           /\ UNCHANGED <<fund_state, user_accounts, tokens>>

C11_PausedRejectsDepositAndWithdraw == [][C11_Step]_vars

C11_Witness ==
    /\ last.op = "withdraw"
    /\ last.err = "FundPaused"
    /\ fund_state.is_paused
    /\ \E u \in Users :
          /\ last.user = u
          /\ Gt(last.args.amount, <<0>>)
          /\ Le(last.args.amount, user_accounts[u].fund_tokens)

\* C12: update_nav is rejected while the fund is paused: no update_nav
\* commits on a paused fund.
C12_UpdateNavRejectedWhilePaused ==
    Committed_("update_nav") => ~fund_state.is_paused

\* C13: a deposit or withdraw applies all of its effects or none: when it
\* fails, at a validation, at a token transfer, mint or burn, or at a later
\* checked ledger update, the fund state, the user accounts, the vault and
\* the share supply are all as before; when it commits, the vault moves by
\* what cash_reserves moves by, and the share supply by what total_shares
\* and the caller's fund_tokens move by.
C13_Step ==
    last'.op \in {"deposit", "withdraw"}
      => /\ last'.err # "Ok" => UNCHANGED <<fund_state, user_accounts, tokens>>
         /\ Add(tokens'.usdc_vault, fund_state.cash_reserves)
               = Add(tokens.usdc_vault, fund_state'.cash_reserves)
         /\ Add(tokens'.fund_token_supply, fund_state.total_shares)
               = Add(tokens.fund_token_supply, fund_state'.total_shares)
         /\ \A u \in Users :
               last'.user = u
                 => Add(tokens'.fund_token_supply, user_accounts[u].fund_tokens)
                       = Add(tokens.fund_token_supply, user_accounts'[u].fund_tokens)
         /\ (last'.err = "Ok" /\ last'.op = "deposit")
               => tokens'.usdc_vault = Add(tokens.usdc_vault, last'.args.amount)
         /\ (last'.err = "Ok" /\ last'.op = "withdraw")
               => tokens.fund_token_supply
                     = Add(tokens'.fund_token_supply, last'.args.amount)

C15_DepositBounds ==
    (last.op = "deposit" /\ last.err # "FundPaused")
        => /\ Lt(last.args.amount, <<10, 000, 000>>) => last.err = "DepositTooSmall"
           /\ Gt(last.args.amount, <<1, 000, 000, 000, 000>>)
                 => last.err = "DepositTooLarge"
           /\ last.err = "Ok" => validate_deposit_amount(last.args.amount).err = "Ok"

\* C16: on a fund that is not paused, withdraw fails with WithdrawAmountZero
\* exactly for a share count of 0 and with InsufficientFundTokens exactly
\* for a positive share count above the caller's fund_tokens (the checks of
\* validate_withdrawal_amount), in both cases changing nothing; a committed
\* withdraw takes the shares from the caller's balance, which covers them,
\* and leaves every other user's balance alone.
C16_Step ==
    (last'.op = "withdraw" /\ ~fund_state.is_paused)
      => \A u \in Users :
           last'.user = u
             => LET shares == last'.args.amount
                    balance == user_accounts[u].fund_tokens
                IN /\ (last'.err = "WithdrawAmountZero") <=> (shares = <<0>>)
                   /\ (last'.err = "InsufficientFundTokens")
                         <=> (Gt(shares, <<0>>) /\ Gt(shares, balance))
                   /\ (last'.err \in {"WithdrawAmountZero", "InsufficientFundTokens"})
                         <=> (validate_withdrawal_amount(shares, balance).err # "Ok")
                   /\ last'.err \in {"WithdrawAmountZero", "InsufficientFundTokens"}
                         => UNCHANGED <<fund_state, user_accounts, tokens>>
                   /\ last'.err = "Ok"
                         => /\ Le(shares, balance)
                            /\ user_accounts'[u].fund_tokens = Sub(balance, shares)
                            /\ \A v \in Users \ {u} :
                                  user_accounts'[v] = user_accounts[v]

C16_WithdrawShareChecks == [][C16_Step]_vars

\* a user asks for one share more than they hold while another user holds some
C16_Witness ==
    /\ last.op = "withdraw"
    /\ last.err = "InsufficientFundTokens"
    /\ \E u \in Users, v \in Users :
          /\ u # v
          /\ last.user = u
          /\ last.args.amount = Add(user_accounts[u].fund_tokens, <<1>>)
          /\ Gt(user_accounts[v].fund_tokens, <<0>>)

\* C17: a committed deposit of amount A that mints s shares, s being
\* calculate_fund_tokens at the fund's NAV, adds A * 100 to total_assets, s
\* to total_shares and A to cash_reserves, and for the caller adds s to
\* fund_tokens, A * 100 to total_deposited and 1 to deposit_count and sets
\* last_deposit_nav to that NAV; the NAV itself is not changed.
C17_Step ==
    (last'.op = "deposit" /\ last'.err = "Ok")
      => \A u \in Users :
           last'.user = u
             => LET A == last'.args.amount
                    s == last'.out
                    fs == fund_state
                    ua == user_accounts[u]
                IN /\ Ok(s) = calculate_fund_tokens(A, fs.nav_per_share)
                   /\ fund_state'.total_assets = Add(fs.total_assets, Mul(A, <<100>>))
                   /\ fund_state'.total_shares = Add(fs.total_shares, s)
                   /\ fund_state'.cash_reserves = Add(fs.cash_reserves, A)
                   /\ fund_state'.nav_per_share = fs.nav_per_share
                   /\ user_accounts'[u].fund_tokens = Add(ua.fund_tokens, s)
                   /\ user_accounts'[u].total_deposited
                         = Add(ua.total_deposited, Mul(A, <<100>>))
                   /\ user_accounts'[u].deposit_count = ua.deposit_count + 1
                   /\ user_accounts'[u].last_deposit_nav = fs.nav_per_share

C17_DepositLedger == [][C17_Step]_vars

\* a second deposit by a user who already holds shares
C17_Witness ==
    /\ Committed_("deposit")
    /\ Gt(last.out, <<0>>)
    /\ \E u \in Users :
          /\ last.user = u
          /\ user_accounts[u].deposit_count = 2
          /\ Gt(user_accounts[u].fund_tokens, last.out)

\* C18: a committed withdraw of s shares that pays R takes s off
\* total_shares, R off cash_reserves and R * 100 off total_assets, and for
\* the caller takes s off fund_tokens and adds R * 100 to total_withdrawn
\* and 1 to withdrawal_count.
C18_Step ==
    (last'.op = "withdraw" /\ last'.err = "Ok")
      => \A u \in Users :
           last'.user = u
             => LET s == last'.args.amount
                    R == last'.out
                    fs == fund_state
                    ua == user_accounts[u]
                IN /\ Add(fund_state'.total_shares, s) = fs.total_shares
                   /\ Add(fund_state'.cash_reserves, R) = fs.cash_reserves
                   /\ Add(fund_state'.total_assets, Mul(R, <<100>>)) = fs.total_assets
                   /\ fund_state'.nav_per_share = fs.nav_per_share
                   /\ Add(user_accounts'[u].fund_tokens, s) = ua.fund_tokens
                   /\ user_accounts'[u].total_withdrawn
                         = Add(ua.total_withdrawn, Mul(R, <<100>>))
                   /\ user_accounts'[u].withdrawal_count = ua.withdrawal_count + 1
                   /\ user_accounts'[u].total_deposited = ua.total_deposited
                   /\ user_accounts'[u].deposit_count = ua.deposit_count

C18_WithdrawLedger == [][C18_Step]_vars

C18_Witness ==
    /\ Committed_("withdraw")
    /\ Gt(last.out, <<0>>)
    /\ \E u \in Users :
          /\ last.user = u
          /\ user_accounts[u].total_withdrawn = Mul(last.out, <<100>>)

\* C19: after a committed deposit the caller's avg_cost_basis is
\* floor((old avg_cost_basis * old fund_tokens + nav_per_share * shares
\* minted) / new fund_tokens): the NAV itself for a user who held nothing,
\* and otherwise a value between the old basis and the NAV; so it lies
\* between the lowest and the highest NAV the user has deposited at (here
\* the initial NAV and the fund's NAV after the update).  No withdraw and no
\* other user's deposit changes it.
C19_Step ==
    /\ (last'.op = "deposit" /\ last'.err = "Ok")
         => \A u \in Users :
              last'.user = u
                => LET ua == user_accounts[u]
                       nav == fund_state.nav_per_share
                       avg == user_accounts'[u].avg_cost_basis
                   IN /\ avg = Div(Add(Mul(ua.avg_cost_basis, ua.fund_tokens),
                                       Mul(nav, last'.out)),
                                   user_accounts'[u].fund_tokens)
                      /\ IsZero(ua.fund_tokens) => avg = nav
                      /\ ~IsZero(ua.fund_tokens)
                           => \/ (Le(ua.avg_cost_basis, avg) /\ Le(avg, nav))
                              \/ (Le(nav, avg) /\ Le(avg, ua.avg_cost_basis))
    /\ \A u \in Users :
          (last'.op # "deposit" \/ last'.user # u)
             => user_accounts'[u].avg_cost_basis = user_accounts[u].avg_cost_basis
    /\ \A u \in Users :
          user_accounts'[u].deposit_count > 0
             => \/ /\ Le(INITIAL_NAV, user_accounts'[u].avg_cost_basis)
                   /\ Le(user_accounts'[u].avg_cost_basis, fund_state'.nav_per_share)
                \/ /\ Le(fund_state'.nav_per_share, user_accounts'[u].avg_cost_basis)
                   /\ Le(user_accounts'[u].avg_cost_basis, INITIAL_NAV)

C19_AvgCostBasis == [][C19_Step]_vars

\* alice, holding shares bought at the initial NAV, has bought more at the
\* moved NAV: her basis is strictly between the two
C19_Witness ==
    /\ Committed_("deposit")
    /\ last.user = "alice"
    /\ user_accounts["alice"].deposit_count = 2
    /\ fund_state.nav_per_share # INITIAL_NAV
    /\ user_accounts["alice"].avg_cost_basis # INITIAL_NAV
    /\ user_accounts["alice"].avg_cost_basis # fund_state.nav_per_share

RECURSIVE SumValuations(_, _)
SumValuations(valuations, i) ==
    IF i > Len(valuations) THEN <<0>>
    ELSE Add(valuations[i], SumValuations(valuations, i + 1))

\* C20: a committed update_nav leaves total_assets equal to cash_reserves *
\* 100 plus the sum of the supplied valuations plus the signed P&L (its
\* magnitude subtracted when negative), sets last_nav_update to the clock,
\* and changes neither cash_reserves nor total_shares.
C20_Step ==
    (last'.op = "update_nav" /\ last'.err = "Ok")
      => LET valued == Add(Mul(fund_state.cash_reserves, <<100>>),
                           SumValuations(last'.args.valuations, 1))
             pnl == last'.args.pnl
         IN /\ IF pnl.neg
               THEN Add(fund_state'.total_assets, pnl.mag) = valued
               ELSE fund_state'.total_assets = Add(valued, pnl.mag)
            /\ fund_state'.last_nav_update = now
            /\ fund_state'.cash_reserves = fund_state.cash_reserves
            /\ fund_state'.total_shares = fund_state.total_shares

C20_UpdateNavTotalAssets == [][C20_Step]_vars

\* an update with valuations on a fund that holds cash, and one with a loss
C20_Witness ==
    /\ Committed_("update_nav")
    /\ Gt(fund_state.cash_reserves, <<0>>)
    /\ \/ Len(last.args.valuations) = 2
       \/ last.args.pnl.neg
    /\ Gt(fund_state.total_assets, <<0>>)
    /\ fund_state.total_assets # Mul(fund_state.cash_reserves, <<100>>)

\* C21: a committed update_nav on a fund with shares leaves nav_per_share
\* equal to floor(total_assets * 10^8 / total_shares), the NAV that
\* update_nav_with_pnl returns for the same total (total_assets =
\* total_shares = 1,000,000,000,000 with +123,287,671 gives 100,012,328;
\* with -5,000,000,000 it gives 995,000,000,000 and 99,500,000).
C21_UpdateNavCommitsScaledNav ==
    (Committed_("update_nav") /\ Gt(fund_state.total_shares, <<0>>))
        => /\ fund_state.nav_per_share
                 = Div(Mul(fund_state.total_assets, NAV_SCALE),
                       fund_state.total_shares)
           /\ calculate_nav_per_share(fund_state.total_assets,
                                      fund_state.total_shares)
                 = Ok(fund_state.nav_per_share)

\* C22: an update_nav that passes the rate limit with a negative P&L whose
\* magnitude exceeds cash_reserves * 100 plus the sum of the valuations fails
\* with InsufficientFunds and leaves the fund state as it was.
C22_Step ==
    ( /\ last'.op = "update_nav"
      /\ now - fund_state.last_nav_update >= NAV_UPDATE_INTERVAL
      /\ last'.args.pnl.neg
      /\ Gt(last'.args.pnl.mag,
            Add(Mul(fund_state.cash_reserves, <<100>>),
                SumValuations(last'.args.valuations, 1))) )
      => /\ last'.err = "InsufficientFunds"
         /\ fund_state' = fund_state

C22_LossBeyondAssetsIsInsufficientFunds == [][C22_Step]_vars

\* C23: for 64-bit cash_reserves, valuations and P&L (the most negative
\* included) the accumulation of update_nav either yields the exact value of
\* cash_reserves * 100 + sum of valuations + P&L, within the 64-bit range, or
\* fails with MathOverflow; it neither wraps nor aborts.
C23_TotalExactOrOverflow ==
    calc.fn = "update_nav_new_total_assets"
      => IF calc.r.err = "Ok"
         THEN /\ Le(calc.r.val, U64_MAX)
              /\ IF calc.pnl.neg
                 THEN Add(calc.r.val, calc.pnl.mag)
                        = Add(Mul(calc.amount, <<100>>),
                              SumValuations(calc.valuations, 1))
                 ELSE calc.r.val
                        = Add(Add(Mul(calc.amount, <<100>>),
                                  SumValuations(calc.valuations, 1)),
                              calc.pnl.mag)
         ELSE calc.r.err = "MathOverflow"

\* C24: on a fund with total_shares = 0 an update_nav that passes the rate
\* limit skips the NAV recomputation: it never fails with
\* NoSharesOutstanding, it commits whenever the new total is within the
\* 64-bit range, and a committed update leaves nav_per_share as it was while
\* storing the new total_assets and the clock as last_nav_update.
C24_Step ==
    ( /\ last'.op = "update_nav"
      /\ IsZero(fund_state.total_shares)
      /\ now - fund_state.last_nav_update >= NAV_UPDATE_INTERVAL )
      => LET valued == Add(Mul(fund_state.cash_reserves, <<100>>),
                           SumValuations(last'.args.valuations, 1))
             pnl == last'.args.pnl
             fits == IF pnl.neg THEN Ge(valued, pnl.mag)
                     ELSE Le(Add(valued, pnl.mag), U64_MAX)
         IN /\ last'.err # "NoSharesOutstanding"
            /\ fits => last'.err = "Ok"
            /\ last'.err = "Ok"
                 => /\ fund_state'.nav_per_share = fund_state.nav_per_share
                    /\ fund_state'.total_assets
                          = IF pnl.neg THEN Sub(valued, pnl.mag)
                            ELSE Add(valued, pnl.mag)
                    /\ fund_state'.last_nav_update = now

C24_NoSharesSkipsNav == [][C24_Step]_vars

\* an update with a profit has committed on a fund without shares
C24_Witness ==
    /\ Committed_("update_nav")
    /\ IsZero(fund_state.total_shares)
    /\ Gt(fund_state.total_assets, <<0>>)
    /\ fund_state.last_nav_update = now
    /\ fund_state.nav_per_share = INITIAL_NAV

\* C25: a deposit of any 64-bit amount at NAV 95,000,000 never aborts and
\* never stores a wrapped value: an amount within the deposit bounds fails
\* with MathOverflow exactly when the share count, amount * 100, one of the
\* new ledger or user-account values or one of the cost-basis products
\* exceeds the 64-bit range, and otherwise commits the exact values.
C25_Step ==
    (last'.op = "deposit" /\ fund_state.nav_per_share = MIN_NAV)
      => LET amount == last'.args.amount
             ua == user_accounts[last'.user]
             minted == Div(Mul(amount, <<100>>), fund_state.nav_per_share)
             amount_8 == Mul(amount, <<100>>)
             total_assets == Add(fund_state.total_assets, amount_8)
             total_shares == Add(fund_state.total_shares, minted)
             cash_reserves == Add(fund_state.cash_reserves, amount)
             user_tokens == Add(ua.fund_tokens, minted)
             total_deposited == Add(ua.total_deposited, amount_8)
             old_cost == Mul(ua.avg_cost_basis, ua.fund_tokens)
             new_cost == Mul(fund_state.nav_per_share, minted)
             exceeds == \E x \in { minted, amount_8, total_assets, total_shares,
                                    cash_reserves, user_tokens, total_deposited,
                                    old_cost, new_cost, Add(old_cost, new_cost) } :
                           Gt(x, U64_MAX)
         IN /\ last'.err # "Panic"
            /\ Lt(amount, <<1, 000, 000>>) => last'.err = "DepositTooSmall"
            /\ Gt(amount, <<1, 000, 000, 000, 000>>) => last'.err = "DepositTooLarge"
            /\ InRange(amount, <<1, 000, 000>>, <<1, 000, 000, 000, 000>>)
                 => /\ last'.err = IF exceeds THEN "MathOverflow" ELSE "Ok"
                    /\ last'.err = "Ok"
                         => /\ last'.out = minted
                            /\ fund_state'.total_assets = total_assets
                            /\ fund_state'.total_shares = total_shares
                            /\ fund_state'.cash_reserves = cash_reserves
                            /\ user_accounts'[last'.user].fund_tokens = user_tokens
                            /\ user_accounts'[last'.user].total_deposited
                                  = total_deposited
                            /\ user_accounts'[last'.user].avg_cost_basis
                                  = Div(Add(old_cost, new_cost), user_tokens)
                    /\ last'.err # "Ok"
                         => /\ fund_state' = fund_state
                            /\ user_accounts' = user_accounts

C25_DepositNeverWraps == [][C25_Step]_vars

\* the largest allowed deposit at NAV 95,000,000 was refused with
\* MathOverflow by a fund whose total_assets had room for one unit less
C25_Witness ==
    /\ last.op = "deposit"
    /\ last.err = "MathOverflow"
    /\ last.args.amount = <<1, 000, 000, 000, 000>>
    /\ fund_state.nav_per_share = MIN_NAV
    /\ Gt(Add(fund_state.total_assets, <<100, 000, 000, 000, 000>>), U64_MAX)

C27_FeeCeiling ==
    /\ (calc.fn = "calculate_daily_management_fee" /\ Gt(calc.total_assets, <<0>>))
         => /\ Gt(calc.management_fee_bps, <<500>>) <=> calc.r.err = "FeeTooHigh"
            /\ Le(calc.management_fee_bps, <<500>>) <=> calc.r.err = "Ok"
    /\ calc.fn = "initialize_fund"
         => (calc.r.err = "Ok" => Le(calc.management_fee_bps, <<100>>))
    /\ calc.fn = "fund_fee"
         => /\ calc.r.err # "FeeTooHigh"
            /\ Gt(calc.total_assets, <<0>>) => calc.r.err = "Ok"

\* a fund initialized with the highest rate it accepts has had its daily fee
\* computed
C27_Witness ==
    /\ calc.fn = "fund_fee"
    /\ calc.management_fee_bps = <<100>>
    /\ calc.r.err = "Ok"
    /\ Gt(calc.r.val, <<0>>)

\* C28: validate_investment_limits rejects an investment whose share of the
\* portfolio after the investment, floor(investment_amount * 10,000 /
\* (current_portfolio_value + investment_amount)), is above 1000; for an
\* asset type other than treasury bill, note and bond it rejects one that
\* takes the issuer's share, floor((same_issuer_total + investment_amount) *
\* 10,000 / the same total), above 500 (the issuer's holdings being part of
\* the portfolio); a treasury investment within the first limit is accepted
\* whatever the issuer's share.
C28_InvestmentLimits ==
    (calc.fn = "validate_investment_limits")
      => LET total == Add(calc.current_portfolio_value, calc.investment_amount)
             fits == Le(total, U64_MAX) /\ Gt(total, <<0>>)
             treasury == calc.asset_type
                           \in {"TreasuryBill", "TreasuryNote", "TreasuryBond"}
             single == Div(Mul(calc.investment_amount, <<10, 000>>), total)
             issuer == Div(Mul(Add(calc.same_issuer_total, calc.investment_amount),
                               <<10, 000>>), total)
         IN /\ (Gt(total, <<0>>) /\ Gt(single, <<1, 000>>))
                 => /\ calc.r.err # "Ok"
                    /\ fits => calc.r.err = "InvestmentAmountExceedsLimit"
            /\ ( /\ ~treasury
                 /\ Gt(total, <<0>>)
                 /\ Le(calc.same_issuer_total, calc.current_portfolio_value)
                 /\ Gt(issuer, <<500>>) )
                 => /\ calc.r.err # "Ok"
                    /\ (fits /\ Le(single, <<1, 000>>))
                         => calc.r.err = "PortfolioConcentrationExceeded"
            /\ (treasury /\ fits /\ Le(single, <<1, 000>>)) => calc.r.err = "Ok"
            /\ ( /\ ~treasury
                 /\ fits
                 /\ Le(calc.same_issuer_total, calc.current_portfolio_value)
                 /\ Le(single, <<1, 000>>)
                 /\ Le(issuer, <<500>>) ) => calc.r.err = "Ok"

\* a corporate bond within the 10% limit was refused for its issuer's share
C28_Witness ==
    /\ calc.fn = "validate_investment_limits"
    /\ calc.asset_type = "CorporateBond"
    /\ calc.investment_amount = <<50>>
    /\ calc.current_portfolio_value = <<950>>
    /\ calc.same_issuer_total = <<1>>
    /\ calc.r.err = "PortfolioConcentrationExceeded"

\* C29: validate_investment_limits enforces the ceiling of the asset class:
\* a treasury investment is rejected when the treasury holdings (the
\* holdings of its issuer) after it exceed 80% of the portfolio.
C29_TreasuryClassCeiling ==
    ( /\ calc.fn = "validate_investment_limits"
      /\ calc.asset_type \in {"TreasuryBill", "TreasuryNote", "TreasuryBond"}
      /\ Gt(calc.investment_amount, <<0>>)
      /\ Le(calc.same_issuer_total, calc.current_portfolio_value)
      /\ Gt(Add(calc.current_portfolio_value, calc.investment_amount), <<0>>)
      /\ Le(Add(calc.current_portfolio_value, calc.investment_amount), U64_MAX)
      /\ Gt(Div(Mul(Add(calc.same_issuer_total, calc.investment_amount),
                    <<10, 000>>),
                Add(calc.current_portfolio_value, calc.investment_amount)),
            <<8, 000>>) )
      => calc.r.err # "Ok"

\* C30: validate_fixed_income_asset accepts an asset only with a credit
\* rating in 1..7 and a maturity date after the clock, and only within the
\* rules of its type: a treasury bill with rating 1 and at most 365 whole
\* days to maturity, a treasury note or bond with rating 1, a corporate bond
\* with rating at most 5, commercial paper with at most 270 whole days and
\* rating at most 4, a CD with rating at most 3.  An asset within these rules
\* and the general ranges (1 to 3650 days, yield 10 to 20000, face value
\* 10^11 to 10^16) is accepted; a refusal is one of the validation errors.
C30_AssetRules ==
    (calc.fn = "validate_fixed_income_asset")
      => LET seconds == calc.maturity_date - calc.current_time
             rules ==
               /\ calc.credit_rating \in 1..7
               /\ seconds > 0
               /\ calc.asset_type = "TreasuryBill"
                    => (calc.credit_rating = 1 /\ seconds < 366 * 86400)
               /\ calc.asset_type \in {"TreasuryNote", "TreasuryBond"}
                    => calc.credit_rating = 1
               /\ calc.asset_type = "CorporateBond" => calc.credit_rating <= 5
               /\ calc.asset_type = "CommercialPaper"
                    => (seconds < 271 * 86400 /\ calc.credit_rating <= 4)
               /\ calc.asset_type = "CertificateOfDeposit"
                    => calc.credit_rating <= 3
             general ==
               /\ seconds >= 86400
               /\ seconds < 3651 * 86400
               /\ calc.yield_rate \in 10..20000
               /\ InRange(calc.face_value, <<100, 000, 000, 000>>,
                          <<10, 000, 000, 000, 000, 000>>)
         IN /\ calc.r.err = "Ok" => rules
            /\ (rules /\ general) => calc.r.err = "Ok"
            /\ calc.r.err \in {"Ok", "InvalidCreditRating", "AssetAlreadyMatured",
                                "InvalidFixedIncomeAssetData"}

\* commercial paper rated 4 was refused for 271 days to maturity
C30_Witness ==
    /\ calc.fn = "validate_fixed_income_asset"
    /\ calc.asset_type = "CommercialPaper"
    /\ calc.credit_rating = 4
    /\ calc.maturity_date - calc.current_time = 271 * 86400
    /\ calc.yield_rate = 10
    /\ calc.face_value = <<100, 000, 000, 000>>
    /\ calc.r.err = "InvalidFixedIncomeAssetData"

\* C31: validate_fund_state_consistency reports a violation exactly when
\* total_assets differs from cash_reserves * 100 + fixed_income_value by more
\* than floor(total_assets / 1000), or total_shares > 0 and nav_per_share
\* differs from floor(total_assets * 10^8 / total_shares) by more than
\* floor(nav_per_share / 10,000); with total_shares = 0 the NAV is not
\* compared, and nothing of the fund state is written.
C31_ConsistencyCheck ==
    (calc.fn = "validate_fund_state_consistency")
      => LET calculated == Add(Mul(calc.cash_reserves, <<100>>),
                               calc.fixed_income_value)
             assets_off ==
                 \E q \in {Div(calc.total_assets, <<1, 000>>)} :
                    \/ Gt(calculated, Add(calc.total_assets, q))
                    \/ Gt(calc.total_assets, Add(calculated, q))
             nav_off ==
                 /\ Gt(calc.total_shares, <<0>>)
                 /\ \E q \in {Div(calc.nav_per_share, <<10, 000>>)},
                       n \in {Div(Mul(calc.total_assets, <<100, 000, 000>>),
                                  calc.total_shares)} :
                       \/ Gt(n, Add(calc.nav_per_share, q))
                       \/ Gt(calc.nav_per_share, Add(n, q))
         IN /\ (calc.r.err # "Ok") <=> (assets_off \/ nav_off)
            /\ calc.r.err \in {"Ok", "MathOverflow"}
            /\ fund_state = initialize_fund(0)

\* a NAV one unit beyond its tolerance was reported on consistent assets
C31_Witness ==
    /\ calc.fn = "validate_fund_state_consistency"
    /\ calc.total_assets = <<100, 000>>
    /\ calc.cash_reserves = <<1, 000>>
    /\ calc.fixed_income_value = <<100>>
    /\ calc.total_shares = <<100, 000>>
    /\ calc.nav_per_share = <<100, 010, 002>>
    /\ calc.r.err = "MathOverflow"

\* C32: pause_fund sets is_paused and unpause_fund clears it, and neither
\* changes another field of the fund state, a user account, the vault or the
\* share supply; a deposit or withdraw that the pause rejected, and that the
\* fund would have accepted had it not been paused, is accepted when it is
\* submitted again with the same arguments right after unpause_fund.
C32_Step ==
    /\ (last'.op = "pause_fund")
          => /\ fund_state' = [fund_state EXCEPT !.is_paused = TRUE]
             /\ UNCHANGED <<user_accounts, tokens>>
    /\ (last'.op = "unpause_fund")
          => /\ fund_state' = [fund_state EXCEPT !.is_paused = FALSE]
             /\ UNCHANGED <<user_accounts, tokens>>
    /\ ( /\ calc.fn = "rejected"
         /\ last.op = "unpause_fund"
         /\ user_accounts = calc.user_accounts
         /\ last'.op = calc.op
         /\ last'.user = calc.user
         /\ last'.args.amount = calc.args.amount )
          => LET open == [calc.fund_state EXCEPT !.is_paused = FALSE]
                 ua == calc.user_accounts[calc.user]
                 would == IF calc.op = "deposit"
                          THEN deposit(open, ua, calc.args.amount, TRUE, TRUE)
                          ELSE withdraw(open, ua, calc.args.amount, TRUE, TRUE)
             IN /\ last'.err = would.err
                /\ fund_state' = would.fund_state
                /\ user_accounts'[calc.user] = would.user_account

C32_PauseTogglesAndResubmit == [][C32_Step]_vars

\* a withdrawal of shares the caller holds was rejected by the pause and was
\* accepted when submitted again after unpause_fund
C32_Witness ==
    /\ calc.fn = "rejected"
    /\ calc.op = "withdraw"
    /\ calc.fund_state.is_paused
    /\ last.op = "withdraw"
    /\ last.user = calc.user
    /\ last.args.amount = calc.args.amount
    /\ Gt(calc.args.amount, <<0>>)
    /\ last.err = "Ok"
    /\ ~fund_state.is_paused

\* C33: a NAV update refused with NAVUpdateTooFrequent, submitted again with
\* the same valuations and P&L once 82,800 seconds have passed since
\* last_nav_update and with the fund state as the refused call found it,
\* returns what the call would have returned had the interval been over, so
\* it commits when the rate limit was its only obstacle; the refusal itself
\* changed no account.
C33_Step ==
    /\ (last'.op = "update_nav" /\ last'.err = "NAVUpdateTooFrequent")
          => UNCHANGED <<fund_state, user_accounts, tokens>>
    /\ ( /\ calc.fn = "rejected"
         /\ calc.op = "update_nav"
         /\ last.op = "tick"
         /\ last'.op = "update_nav"
         /\ last'.args = calc.args
         /\ fund_state = calc.fund_state
         /\ now - fund_state.last_nav_update >= 82800 )
          => LET would == update_nav(calc.fund_state,
                                     calc.fund_state.last_nav_update + 82800,
                                     calc.args.valuations, calc.args.pnl, TRUE)
             IN /\ last'.err = would.err
                /\ fund_state' = [would.fund_state EXCEPT !.last_nav_update =
                                     IF would.err = "Ok" THEN now ELSE @]

C33_RetryAfterRateLimit == [][C33_Step]_vars

\* an update with a loss was refused twice, 0 and 82,799 seconds after the
\* last update, and committed on the third submission
C33_Witness ==
    /\ calc.fn = "rejected"
    /\ calc.op = "update_nav"
    /\ calc.args.pnl = Pnl(TRUE, <<5, 000, 000, 000>>)
    /\ last.op = "update_nav"
    /\ last.args = calc.args
    /\ last.err = "Ok"
    /\ ticks = 2
    /\ fund_state.last_nav_update = now
    /\ now = NAV_UPDATE_INTERVAL + 82799 + 82799

\* C34: on an unpaused fund, a deposit of an amount within [1,000,000,
\* 1,000,000,000,000] at a NAV within [95,000,000, 105,000,000], whose
\* transfers succeed and which finds total_assets, total_shares,
\* cash_reserves and the caller's fund_tokens below 2^63 (so that the new
\* totals fit in 64 bits), commits, whether or not the caller already holds
\* fund tokens.
C34_Step ==
    ( /\ last'.op = "deposit"
      /\ ~fund_state.is_paused
      /\ InRange(last'.args.amount, <<1, 000, 000>>, <<1, 000, 000, 000, 000>>)
      /\ InRange(fund_state.nav_per_share, <<95, 000, 000>>, <<105, 000, 000>>)
      /\ \A x \in { fund_state.total_assets, fund_state.total_shares,
                     fund_state.cash_reserves,
                     user_accounts[last'.user].fund_tokens } : Lt(x, TWO_63) )
      => last'.err = "Ok"

C34_DepositFailsOnlyForListedCauses == [][C34_Step]_vars

\* C35: a committed deposit at a NAV within [95,000,000, 105,000,000] minted
\* at least one share unit (a deposit does not change the NAV, so the NAV of
\* the state after it is the NAV it was made at).
C35_DepositMintsAtLeastOneShare ==
    ( /\ Committed_("deposit")
      /\ InRange(fund_state.nav_per_share, <<95, 000, 000>>, <<105, 000, 000>>) )
      => Gt(last.out, <<0>>)

\* C36: at a fixed NAV, whatever bob deposited and however he split the
\* withdrawals of the shares minted for it, the amounts paid out to him
\* (total_withdrawn, at 8 decimals) never exceed the amounts he paid in
\* (total_deposited), and the vault holds exactly the cash reserves.
C36_NoValueFromRounding ==
    /\ Le(user_accounts["bob"].total_withdrawn, user_accounts["bob"].total_deposited)
    /\ tokens.usdc_vault = fund_state.cash_reserves

\* bob redeemed all his shares in two withdrawals and was paid something
C36_Witness ==
    /\ user_accounts["bob"].withdrawal_count = 2
    /\ IsZero(user_accounts["bob"].fund_tokens)
    /\ Gt(user_accounts["bob"].total_withdrawn, <<0>>)
    /\ last.op = "withdraw"
    /\ last.err = "Ok"

RECURSIVE SumNetDeposits(_)
SumNetDeposits(S) ==
    IF S = {} THEN <<0>>
    ELSE LET u == CHOOSE v \in S : TRUE
         IN Add(Sub(user_accounts[u].total_deposited, user_accounts[u].total_withdrawn),
                SumNetDeposits(S \ {u}))

\* C37: in every state cash_reserves * 100 is the sum over the user accounts
\* of total_deposited - total_withdrawn (no account has withdrawn more than
\* it deposited), and no update_nav, pause_fund or unpause_fund changes
\* cash_reserves.
C37_Balanced ==
    /\ \A u \in Users :
          Le(user_accounts[u].total_withdrawn, user_accounts[u].total_deposited)
    /\ Mul(fund_state.cash_reserves, <<100>>) = SumNetDeposits(Users)

C37_Step ==
    (last'.op \in {"update_nav", "pause_fund", "unpause_fund"})
       => fund_state'.cash_reserves = fund_state.cash_reserves

C37_CashConservation == []C37_Balanced /\ [][C37_Step]_vars

\* a withdrawal has paid out part of the reserves that two deposits built
C37_Witness ==
    /\ Committed_("withdraw")
    /\ Gt(last.out, <<0>>)
    /\ Gt(fund_state.cash_reserves, <<0>>)
    /\ Gt(user_accounts[last.user].total_withdrawn, <<0>>)

\* C38: as long as no NAV update has committed (last_nav_update is still the
\* time of initialization), no withdraw fails with InsufficientLiquidity
\* (a share count of 0 or above the balance fails earlier, with its own
\* code), and cash_reserves covers the redemption of all outstanding shares
\* at the NAV.
C38_SolventAtConstantNav ==
    (fund_state.last_nav_update = 0)
      => /\ last.err # "InsufficientLiquidity"
         /\ Le(Mul(fund_state.total_shares, fund_state.nav_per_share),
               Mul(fund_state.cash_reserves, <<10, 000, 000, 000>>))

\* with the NAV never updated, a user redeemed the whole balance while the
\* other still holds shares
C38_Witness ==
    /\ fund_state.last_nav_update = 0
    /\ Committed_("withdraw")
    /\ last.args.amount = <<1, 000>>
    /\ IsZero(user_accounts[last.user].fund_tokens)
    /\ Gt(fund_state.total_shares, <<0>>)

\* C39: a committed deposit or withdraw by a user changes no other user's
\* account and leaves nav_per_share, last_nav_update, fixed_income_value,
\* total_yield_distributed and is_paused as they were; a committed update_nav
\* changes no user account and not total_shares.
C39_Step ==
    /\ (last'.op \in {"deposit", "withdraw"} /\ last'.err = "Ok")
          => /\ \A v \in Users \ {last'.user} : user_accounts'[v] = user_accounts[v]
             /\ fund_state'.nav_per_share = fund_state.nav_per_share
             /\ fund_state'.last_nav_update = fund_state.last_nav_update
             /\ fund_state'.fixed_income_value = fund_state.fixed_income_value
             /\ fund_state'.total_yield_distributed = fund_state.total_yield_distributed
             /\ fund_state'.is_paused = fund_state.is_paused
    /\ (last'.op = "update_nav" /\ last'.err = "Ok")
          => /\ user_accounts' = user_accounts
             /\ fund_state'.total_shares = fund_state.total_shares

C39_Frame == [][C39_Step]_vars

\* an update committed a new NAV while a user held shares
C39_Witness ==
    /\ Committed_("update_nav")
    /\ fund_state.nav_per_share # <<100, 000, 000>>
    /\ Gt(fund_state.total_shares, <<0>>)
    /\ \E u \in Users : user_accounts[u].fund_tokens = fund_state.total_shares

\* C40: for every 64-bit input validate_investment_limits returns Ok or one
\* of its two validation errors, never an abort, and with a positive total it
\* returns Ok exactly when the investment is at most 10% and, for an asset
\* that is not a treasury security, the issuer's holdings at most 5% of the
\* exact total after the investment (no sum is taken modulo 2^64).
C40_LimitsFailOnlyWithTypedErrors ==
    (calc.fn = "validate_investment_limits")
      => LET total == Add(calc.current_portfolio_value, calc.investment_amount)
             issuer == Add(calc.same_issuer_total, calc.investment_amount)
             treasury == calc.asset_type \in {"TreasuryBill", "TreasuryNote",
                                              "TreasuryBond"}
         IN /\ calc.r.err \in {"Ok", "InvestmentAmountExceedsLimit",
                               "PortfolioConcentrationExceeded"}
            /\ Gt(total, <<0>>)
                  => ( (calc.r.err = "Ok")
                         <=> /\ Lt(Mul(calc.investment_amount, <<10, 000>>),
                                   Mul(total, <<1, 001>>))
                             /\ treasury \/ Lt(Mul(issuer, <<10, 000>>),
                                                Mul(total, <<501>>)) )

====
